---- MODULE Spec2Model ----
(***************************************************************************)
(* A model of the n8ncli command handlers (src/n8ncli/src/cli.js):         *)
(*   - `workflow diff`        (specification Spec; with its two fetches,   *)
(*                             specification SpecFetch)                    *)
(*   - `workflow update`, `workflow set-code`, `workflow set-setting`      *)
(*                            (specification SpecUpdate)                   *)
(*   - `execution`            (specification SpecTrace)                    *)
(*   - `execution --ai`       (specification SpecAi)                       *)
(*   - `workflow add-tag`, `workflow remove-tag`                           *)
(*                            (specification SpecTags)                     *)
(* of the token extractor (src/n8ncli/scripts/token-extractor.js,          *)
(* specification SpecTokens) and of the request throttle of lexcli         *)
(* (src/lexcli/scripts/cli.js): specification SpecThrottle for calls that  *)
(* are awaited one by one, SpecThrottleCalls for calls in flight at once.  *)
(*                                                                         *)
(* JSON documents are modelled as records; a JS object whose key order     *)
(* matters (a node's `parameters`) is a sequence of <<key, value>> pairs   *)
(* in insertion order.  A missing property is the value Undefined.         *)
(***************************************************************************)
EXTENDS Integers, Sequences, FiniteSets, TLC

VARIABLES
    pc,          \* position of the running command: "start", "done", "error"
    wf1, wf2,    \* `workflow diff`: the two fetched workflow documents
    added, removed, modified, unchanged,   \* `workflow diff`: the four lists
    tempFiles,   \* documents written by writeJsonToTemp, oldest first
    remote,      \* the workflow document the server stores
    fetched,     \* <<the document GET /workflows/{id} returned>>, <<>> before
    requests,    \* the bodies of the PUT calls issued, in order
    execution,   \* `execution`: the fetched execution record
    trace,       \* `execution`: the result of extractAllNodeData
    details,     \* `execution`: the trace after the filters
    output,      \* the kinds of the messages printed, in order
    parsed,      \* `execution`: the options of the command line
    aiDetails,   \* `execution --ai`: the result of extractAiDetails
    fetch,       \* `workflow diff`: the state of each of the two fetches
    usage,       \* the result of extractTokenUsage
    now,         \* lexcli: the clock, in milliseconds
    lastRequestTime,   \* lexcli: the module variable of that name
    wakeAt,      \* lexcli: the time the pending setTimeout is due
    requestTimes, \* lexcli: the start times of the requests sent, in order
    allTags      \* the tags the server stores, in the order GET /tags lists them

diffVars == <<wf1, wf2, added, removed, modified, unchanged, tempFiles>>
updateVars == <<remote, fetched, requests>>
traceVars == <<execution, trace, details, output, parsed>>
aiVars == <<aiDetails>>
fetchVars == <<fetch>>
tokenVars == <<usage>>
throttleVars == <<now, lastRequestTime, wakeAt, requestTimes>>
tagVars == <<allTags>>
otherVars == <<aiVars, fetchVars, tokenVars, throttleVars, tagVars>>
vars == <<pc, diffVars, updateVars, traceVars, otherVars>>

Undefined == "undefined"

(***************************************************************************)
(* Bounds and input domains                                                *)
(***************************************************************************)
MaxNodes == 2

NodeNames == {"X", "Y", "Z"}

\* Three `parameters` objects: ParamsA and ParamsB hold the same keys and
\* values in a different key order, ParamsC differs in a value.
ParamsA == << <<"a", "1">>, <<"b", "2">> >>
ParamsB == << <<"b", "2">>, <<"a", "1">> >>
ParamsC == << <<"a", "1">>, <<"b", "3">> >>
ParamValues == {ParamsA, ParamsB, ParamsC}
\* The first workflow's nodes hold ParamsA, the second's any of the three: the
\* two sides of a name are the same, reordered or changed.
ParamValues1 == {ParamsA}

\* The node fields other than name and parameters.
OtherFields == {"id", "type", "typeVersion", "position", "credentials", "webhookId"}
Skews == {"none"} \cup OtherFields

\* A node as the API returns it.  With alt = f the field f carries its second
\* value; every other field carries its first.
MkNode(name, parameters, alt) ==
    [ id          |-> <<name, IF alt = "id" THEN 2 ELSE 1>>,
      name        |-> name,
      type        |-> IF alt = "type" THEN "n8n-nodes-base.code" ELSE "n8n-nodes-base.set",
      typeVersion |-> IF alt = "typeVersion" THEN 2 ELSE 1,
      position    |-> IF alt = "position" THEN <<100, 200>> ELSE <<0, 0>>,
      parameters  |-> parameters,
      credentials |-> IF alt = "credentials" THEN "credA" ELSE Undefined,
      webhookId   |-> IF alt = "webhookId" THEN "hook1" ELSE Undefined ]

\* Node lists of at most MaxNodes nodes; node names are unique within one
\* workflow (the platform's rule).
NodeLists(params, alt) ==
    UNION { { s \in [1..n -> { MkNode(nm, p, alt) : nm \in NodeNames, p \in params }] :
                \A i, j \in 1..n : i # j => s[i].name # s[j].name }
            : n \in 0..MaxNodes }

(***************************************************************************)
(* JS helpers                                                              *)
(***************************************************************************)
\* The elements of s without repetition, in order of first occurrence: the
\* iteration order of a JS Set / of a Map's keys.
RECURSIVE InsertionOrder(_)
InsertionOrder(s) ==
    IF s = <<>> THEN <<>>
    ELSE LET r == InsertionOrder(SubSeq(s, 1, Len(s) - 1))
             x == s[Len(s)]
         IN  IF \E i \in 1..Len(r) : r[i] = x THEN r ELSE Append(r, x)

\* new Map(nodes.map(n => [n.name, n])): keys, has, get (the last node set
\* under a key wins).
MapKeys(nodes) == InsertionOrder([i \in 1..Len(nodes) |-> nodes[i].name])
MapHas(nodes, name) == \E i \in 1..Len(nodes) : nodes[i].name = name
MapGet(nodes, name) ==
    nodes[CHOOSE i \in 1..Len(nodes) :
            /\ nodes[i].name = name
            /\ \A j \in 1..Len(nodes) : nodes[j].name = name => j <= i]

\* JSON.stringify of an object of string values: its members in insertion
\* order, as a sequence of tokens.
RECURSIVE JSONMembers(_)
JSONMembers(obj) ==
    IF obj = <<>> THEN <<>>
    ELSE <<obj[1][1], ":", obj[1][2]>>
         \o (IF Len(obj) > 1 THEN <<",">> ELSE <<>>)
         \o JSONMembers(Tail(obj))

JSONstringify(obj) == <<"{">> \o JSONMembers(obj) \o <<"}">>

(***************************************************************************)
(* workflow diff                                                           *)
(***************************************************************************)
\* Variant: an array of both key lists, a shared name twice.
AllNodeNamesConcat(nodes1, nodes2) == MapKeys(nodes1) \o MapKeys(nodes2)
\* Variant: the second workflow's names first.
AllNodeNamesBFirst(nodes1, nodes2) == InsertionOrder(MapKeys(nodes2) \o MapKeys(nodes1))

\* new Set([...nodes1.keys(), ...nodes2.keys()])
AllNodeNames(nodes1, nodes2) == InsertionOrder(MapKeys(nodes1) \o MapKeys(nodes2))

\* Variant: the added and removed branches exchanged.
BucketSwapped(nodes1, nodes2, name) ==
    IF ~MapHas(nodes1, name) THEN "removed"
    ELSE IF ~MapHas(nodes2, name) THEN "added"
    ELSE IF JSONstringify(MapGet(nodes1, name).parameters)
            # JSONstringify(MapGet(nodes2, name).parameters)
         THEN "modified" ELSE "unchanged"

\* Variant: === for !== in the comparison of the serializations.
BucketInverted(nodes1, nodes2, name) ==
    IF ~MapHas(nodes1, name) THEN "added"
    ELSE IF ~MapHas(nodes2, name) THEN "removed"
    ELSE IF JSONstringify(MapGet(nodes1, name).parameters)
            = JSONstringify(MapGet(nodes2, name).parameters)
         THEN "modified" ELSE "unchanged"

\* Variant: the whole nodes compared, not their parameters.
BucketWholeNode(nodes1, nodes2, name) ==
    IF ~MapHas(nodes1, name) THEN "added"
    ELSE IF ~MapHas(nodes2, name) THEN "removed"
    ELSE IF MapGet(nodes1, name) # MapGet(nodes2, name)
         THEN "modified" ELSE "unchanged"

\* Variant: the parameters compared whatever their key order.
BucketKeySet(nodes1, nodes2, name) ==
    IF ~MapHas(nodes1, name) THEN "added"
    ELSE IF ~MapHas(nodes2, name) THEN "removed"
    ELSE LET p1 == MapGet(nodes1, name).parameters
             p2 == MapGet(nodes2, name).parameters
         IN  IF {p1[i] : i \in DOMAIN p1} # {p2[i] : i \in DOMAIN p2}
             THEN "modified" ELSE "unchanged"

\* The body of the loop over allNodeNames: the list the name is pushed to.
Bucket(nodes1, nodes2, name) ==
    IF ~MapHas(nodes1, name) THEN "added"
    ELSE IF ~MapHas(nodes2, name) THEN "removed"
    ELSE IF JSONstringify(MapGet(nodes1, name).parameters)
            # JSONstringify(MapGet(nodes2, name).parameters)
         THEN "modified" ELSE "unchanged"

\* The list `bucket` after the loop: the names pushed to it, in loop order.
DiffList(nodes1, nodes2, bucket) ==
    SelectSeq(AllNodeNames(nodes1, nodes2),
              LAMBDA name : Bucket(nodes1, nodes2, name) = bucket)

\* Variant: before and after exchanged.
DiffDataSwapped(w1, w2, a, r, m, u) ==
    [ workflow1 |-> [id |-> w1.id, name |-> w1.name],
      workflow2 |-> [id |-> w2.id, name |-> w2.name],
      added     |-> [i \in 1..Len(a) |-> MapGet(w2.nodes, a[i])],
      removed   |-> [i \in 1..Len(r) |-> MapGet(w1.nodes, r[i])],
      modified  |-> [i \in 1..Len(m) |->
                        [ name   |-> m[i],
                          before |-> MapGet(w2.nodes, m[i]),
                          after  |-> MapGet(w1.nodes, m[i]) ]],
      unchanged |-> u ]

\* The document written under --json.
DiffData(w1, w2, a, r, m, u) ==
    [ workflow1 |-> [id |-> w1.id, name |-> w1.name],
      workflow2 |-> [id |-> w2.id, name |-> w2.name],
      added     |-> [i \in 1..Len(a) |-> MapGet(w2.nodes, a[i])],
      removed   |-> [i \in 1..Len(r) |-> MapGet(w1.nodes, r[i])],
      modified  |-> [i \in 1..Len(m) |->
                        [ name   |-> m[i],
                          before |-> MapGet(w1.nodes, m[i]),
                          after  |-> MapGet(w2.nodes, m[i]) ]],
      unchanged |-> u ]

\* The value of the workflow variables a command does not use.
NoWorkflow == [id |-> "", name |-> "", nodes |-> <<>>]
\* The value of the trace variables a command does not use.
NoTrace == [executionId |-> "", workflowId |-> "", status |-> "",
            startedAt |-> 0, stoppedAt |-> 0, nodes |-> <<>>]

\* The options of a command line without options.
NoOptions == [node |-> <<>>, errorsOnly |-> FALSE, json |-> FALSE, verbose |-> FALSE]
\* The value of aiDetails before extractAiDetails has run.
NoAiDetails == [exchanges |-> <<>>,
                totals |-> [promptTokens |-> 0, completionTokens |-> 0, totalTokens |-> 0]]
\* The value of usage before extractTokenUsage has run.
NoUsage == [nodes |-> <<>>,
            totals |-> [promptTokens |-> 0, completionTokens |-> 0, totalTokens |-> 0]]

\* The variables of `execution --ai`, of the diff's fetches, of the token
\* extractor and of lexcli, as a command that does not use them finds them.
AiUnused == aiDetails = NoAiDetails
FetchUnused == fetch = [i \in 1..2 |-> "idle"]
TokenUnused == usage = NoUsage
TagsUnused == allTags = <<>>
ThrottleUnused ==
    /\ now = 0
    /\ lastRequestTime = 0
    /\ wakeAt = 0
    /\ requestTimes = <<>>

\* Both fetches have succeeded: wf1 and wf2 hold the two documents.
Init ==
    /\ pc = "start"
    /\ \E ns1 \in NodeLists(ParamValues1, "none"), skew \in Skews :
         \E ns2 \in NodeLists(ParamValues, skew) :
           /\ wf1 = [id |-> "wf-1", name |-> "First", nodes |-> ns1]
           /\ wf2 = [id |-> "wf-2", name |-> "Second", nodes |-> ns2]
    /\ added = <<>>
    /\ removed = <<>>
    /\ modified = <<>>
    /\ unchanged = <<>>
    /\ tempFiles = <<>>
    /\ remote = NoWorkflow
    /\ fetched = <<>>
    /\ requests = <<>>
    /\ execution = NoTrace
    /\ trace = NoTrace
    /\ details = NoTrace
    /\ output = <<>>
    /\ parsed = NoOptions
    /\ AiUnused
    /\ FetchUnused
    /\ TokenUnused
    /\ TagsUnused
    /\ ThrottleUnused

\* `workflow diff <id1> <id2> [--json]`
DiffCmd(json) ==
    /\ pc = "start"
    /\ added' = DiffList(wf1.nodes, wf2.nodes, "added")
    /\ removed' = DiffList(wf1.nodes, wf2.nodes, "removed")
    /\ modified' = DiffList(wf1.nodes, wf2.nodes, "modified")
    /\ unchanged' = DiffList(wf1.nodes, wf2.nodes, "unchanged")
    /\ tempFiles' = IF json
                    THEN Append(tempFiles,
                                DiffData(wf1, wf2, added', removed', modified', unchanged'))
                    ELSE tempFiles
    /\ pc' = "done"
    /\ UNCHANGED <<wf1, wf2, updateVars, traceVars, otherVars>>

Next == \E json \in BOOLEAN : DiffCmd(json)

Spec == Init /\ [][Next]_vars

(***************************************************************************)
(* Properties of workflow diff                                             *)
(***************************************************************************)
Range(s) == {s[i] : i \in 1..Len(s)}
NamesOf(nodes) == [i \in 1..Len(nodes) |-> nodes[i].name]
NameUnion == Range(NamesOf(wf1.nodes)) \cup Range(NamesOf(wf2.nodes))
\* The node called name in a list of uniquely named nodes.
NodeNamed(nodes, name) == CHOOSE n \in Range(nodes) : n.name = name
CommonNames == Range(NamesOf(wf1.nodes)) \cap Range(NamesOf(wf2.nodes))

\* C1: the four lists partition the union of both graphs' node names: put end
\* to end they list every name of the union, and no name twice, so their
\* lengths add up to the size of the union.
C1_Partition ==
    pc = "done" =>
        LET all == added \o removed \o modified \o unchanged
        IN  /\ Range(all) = NameUnion
            /\ \A i, j \in 1..Len(all) : i # j => all[i] # all[j]
            /\ Len(added) + Len(removed) + Len(modified) + Len(unchanged)
                 = Cardinality(NameUnion)

C1_Witness ==
    /\ pc = "done"
    /\ added # <<>> /\ removed # <<>> /\ modified # <<>>

\* C2: a graph diffed against itself gives added = removed = modified = []
\* and unchanged = all of its node names.
C2_SelfDiff ==
    (pc = "done" /\ wf1.nodes = wf2.nodes) =>
        /\ added = <<>> /\ removed = <<>> /\ modified = <<>>
        /\ unchanged = NamesOf(wf1.nodes)

C2_Witness ==
    /\ pc = "done"
    /\ wf1.nodes = wf2.nodes
    /\ Len(wf1.nodes) = 2

\* C3: a name is added exactly when no node of a and a node of b has it, and
\* removed exactly when a node of a and no node of b has it.
C3_AddedRemoved ==
    pc = "done" =>
        \A name \in NodeNames :
            /\ name \in Range(added)
                 <=> (name \notin Range(NamesOf(wf1.nodes)) /\ name \in Range(NamesOf(wf2.nodes)))
            /\ name \in Range(removed)
                 <=> (name \in Range(NamesOf(wf1.nodes)) /\ name \notin Range(NamesOf(wf2.nodes)))

\* The scenario A = {X, Y}, B = {Y with the same parameters, Z}.
C3_Witness ==
    /\ pc = "done"
    /\ NamesOf(wf1.nodes) = <<"X", "Y">>
    /\ NamesOf(wf2.nodes) = <<"Y", "Z">>
    /\ wf1.nodes[2].parameters = wf2.nodes[1].parameters
    /\ added = <<"Z">> /\ removed = <<"X">>
    /\ unchanged = <<"Y">> /\ modified = <<>>

\* Deep structural equality of two parameters objects: the same keys, each
\* with the same value, whatever the order of the keys.
DeepEqual(p1, p2) == Range(p1) = Range(p2)

\* C4 as claimed: a name of both graphs is unchanged if the parameters are
\* deeply structurally equal and modified otherwise.
C4_DeepEqualClaimed ==
    pc = "done" =>
        \A name \in CommonNames :
            IF DeepEqual(NodeNamed(wf1.nodes, name).parameters,
                         NodeNamed(wf2.nodes, name).parameters)
            THEN name \in Range(unchanged)
            ELSE name \in Range(modified)

\* C4 as amended: a name of both graphs is unchanged if the two parameters
\* objects hold the same keys with the same values in the same key order,
\* and modified otherwise.
C4_OrderedEqual ==
    pc = "done" =>
        \A name \in CommonNames :
            IF NodeNamed(wf1.nodes, name).parameters = NodeNamed(wf2.nodes, name).parameters
            THEN name \in Range(unchanged) /\ name \notin Range(modified)
            ELSE name \in Range(modified) /\ name \notin Range(unchanged)

\* Deeply equal parameters in another key order, classified modified.
C4_Witness ==
    /\ pc = "done"
    /\ \E name \in CommonNames :
         /\ DeepEqual(NodeNamed(wf1.nodes, name).parameters,
                      NodeNamed(wf2.nodes, name).parameters)
         /\ NodeNamed(wf1.nodes, name).parameters # NodeNamed(wf2.nodes, name).parameters
         /\ name \in Range(modified)

\* A node list with every field but name and parameters set to one value.
NameAndParameters(nodes) ==
    [i \in 1..Len(nodes) |-> MkNode(nodes[i].name, nodes[i].parameters, "none")]

\* C5: the four lists depend on the nodes' names and parameters only: they
\* are the lists of the pair of graphs that agrees on names and parameters
\* and holds one fixed value in every other field, so two pairs that agree on
\* names and parameters get the same lists; and a node whose two sides differ
\* outside parameters only is never modified.
C5_OnlyNameAndParameters ==
    pc = "done" =>
        LET c1 == NameAndParameters(wf1.nodes)
            c2 == NameAndParameters(wf2.nodes)
        IN  /\ added = DiffList(c1, c2, "added")
            /\ removed = DiffList(c1, c2, "removed")
            /\ modified = DiffList(c1, c2, "modified")
            /\ unchanged = DiffList(c1, c2, "unchanged")
            /\ \A name \in CommonNames :
                 NodeNamed(wf1.nodes, name).parameters = NodeNamed(wf2.nodes, name).parameters
                    => name \notin Range(modified)

C5_Witness ==
    /\ pc = "done"
    /\ \E name \in CommonNames :
         /\ NodeNamed(wf1.nodes, name).credentials # NodeNamed(wf2.nodes, name).credentials
         /\ name \in Range(unchanged)
    /\ modified # <<>>

\* C6: the union order U is a's names in a's order, then b's names not in a,
\* in b's order; each of the four lists holds its names in the order of U.
UnionOrder ==
    NamesOf(wf1.nodes)
    \o SelectSeq(NamesOf(wf2.nodes), LAMBDA n : n \notin Range(NamesOf(wf1.nodes)))

InOrderOfU(list) == list = SelectSeq(UnionOrder, LAMBDA n : n \in Range(list))

C6_UnionOrder ==
    pc = "done" =>
        /\ InOrderOfU(added) /\ InOrderOfU(removed)
        /\ InOrderOfU(modified) /\ InOrderOfU(unchanged)

\* Two common names that b lists in the opposite order.
C6_Witness ==
    /\ pc = "done"
    /\ Len(wf1.nodes) = 2
    /\ NamesOf(wf2.nodes) = <<wf1.nodes[2].name, wf1.nodes[1].name>>
    /\ unchanged = NamesOf(wf1.nodes)

\* C7: under --json every added name is written with b's node, every removed
\* name with a's node, every modified name with {name, before: a's node,
\* after: b's node}, and unchanged as names only.
C7_FullDiff ==
    (pc = "done" /\ tempFiles # <<>>) =>
        LET d == tempFiles[Len(tempFiles)]
        IN  /\ Len(d.added) = Len(added)
            /\ \A i \in 1..Len(added) : d.added[i] = NodeNamed(wf2.nodes, added[i])
            /\ Len(d.removed) = Len(removed)
            /\ \A i \in 1..Len(removed) : d.removed[i] = NodeNamed(wf1.nodes, removed[i])
            /\ Len(d.modified) = Len(modified)
            /\ \A i \in 1..Len(modified) :
                 d.modified[i] = [ name   |-> modified[i],
                                   before |-> NodeNamed(wf1.nodes, modified[i]),
                                   after  |-> NodeNamed(wf2.nodes, modified[i]) ]
            /\ d.unchanged = unchanged

C7_Witness ==
    /\ pc = "done"
    /\ tempFiles # <<>>
    /\ added # <<>> /\ removed # <<>> /\ modified # <<>>

(***************************************************************************)
(* workflow update / set-code / set-setting                                *)
(***************************************************************************)
\* The node types of the model; those whose text contains "code".
CodeType == "n8n-nodes-base.code"
NodeTypeOf(name) ==
    CASE name = "X" -> CodeType
      [] name = "Y" -> "n8n-nodes-base.httpRequest"
      [] OTHER      -> "n8n-nodes-base.set"
\* Variant: every node type passes for a code node.
TypeIncludesAnything(type) == TRUE

\* node.type.includes('code')
TypeIncludesCode(type) == type = CodeType

CodeParams == << <<"mode", "runOnceForAllItems">>, <<"jsCode", "return 1">> >>

\* A node of the stored workflow.
RemoteNode(name, credentials) ==
    [ id          |-> <<name, 1>>,
      name        |-> name,
      type        |-> NodeTypeOf(name),
      typeVersion |-> 1,
      position    |-> <<0, 0>>,
      parameters  |-> IF TypeIncludesCode(NodeTypeOf(name)) THEN CodeParams ELSE ParamsA,
      credentials |-> credentials,
      webhookId   |-> Undefined ]

\* A node of an update file: its id may differ from the stored node's.
FileNode(name, credentials, idVersion) ==
    [ id          |-> <<name, idVersion>>,
      name        |-> name,
      type        |-> NodeTypeOf(name),
      typeVersion |-> 1,
      position    |-> <<100, 200>>,
      parameters  |-> IF TypeIncludesCode(NodeTypeOf(name)) THEN CodeParams ELSE ParamsC,
      credentials |-> credentials,
      webhookId   |-> Undefined ]

UniqueNameLists(nodes) ==
    UNION { { s \in [1..n -> nodes] : \A i, j \in 1..n : i # j => s[i].name # s[j].name }
            : n \in 0..MaxNodes }

RemoteNodeLists ==
    UniqueNameLists({ RemoteNode(nm, c) : nm \in NodeNames, c \in {Undefined, "credA"} })

\* A file node carries the stored id or another one, and credentials of its
\* own or none.
FileNodeLists ==
    UniqueNameLists({ FileNode(nm, cv[1], cv[2]) :
                        nm \in NodeNames,
                        cv \in { <<Undefined, 1>>, <<Undefined, 2>>, <<"credB", 1>> } })

\* settings objects of the stored workflow; the first stands for no settings.
RemoteSettings == { <<>>, << <<"executionOrder", "v1">> >>,
                    << <<"executionOrder", "v1">>, <<"errorWorkflow", "wf-9">> >> }

\* GET /workflows/{id}: the fields of the update endpoint and fields it rejects.
RemoteDoc(nodes, settings, hasSettings) ==
    [ f \in {"id", "name", "active", "nodes", "connections", "tags"}
            \cup (IF hasSettings THEN {"settings"} ELSE {}) |->
        CASE f = "id"          -> "wf-1"
          [] f = "name"        -> "First"
          [] f = "active"      -> "true"
          [] f = "nodes"       -> nodes
          [] f = "connections" -> "connA"
          [] f = "tags"        -> <<>>
          [] f = "settings"    -> settings ]

\* The top-level fields PUT /workflows/{id} accepts.
AcceptedFields == {"name", "nodes", "connections", "settings"}

\* The field sets of the update files: the accepted fields, a file without
\* nodes, and a document as the API (or `workflow <id> --json`) gives it.
FileFieldSets == { AcceptedFields,
                   AcceptedFields \ {"nodes"},
                   AcceptedFields \cup {"id", "active"} }

FileDoc(fields, nodes) ==
    [ f \in fields |->
        CASE f = "id"          -> "wf-1"
          [] f = "name"        -> "Renamed"
          [] f = "active"      -> "true"
          [] f = "nodes"       -> nodes
          [] f = "connections" -> "connB"
          [] f = "settings"    -> << <<"executionOrder", "v1">> >> ]

FileDocs == { FileDoc(fs, ns) : fs \in FileFieldSets, ns \in FileNodeLists }

\* obj[key] = value on an object kept as its members in insertion order.
ObjHas(obj, key) == \E i \in 1..Len(obj) : obj[i][1] = key
\* Variant: the assignment leaves an object with the one member.
ObjSetAlone(obj, key, value) == << <<key, value>> >>
ObjSet(obj, key, value) ==
    IF ObjHas(obj, key)
    THEN [i \in 1..Len(obj) |-> IF obj[i][1] = key THEN <<key, value>> ELSE obj[i]]
    ELSE Append(obj, <<key, value>>)
\* delete obj[key]
ObjDelete(obj, key) == SelectSeq(obj, LAMBDA member : member[1] # key)

\* existingCreds: has / get (the last node set under a name wins).
ExistingCredsHas(existingNodes, name) ==
    \E i \in 1..Len(existingNodes) :
        existingNodes[i].name = name /\ existingNodes[i].credentials # Undefined
ExistingCredsGet(existingNodes, name) ==
    existingNodes[CHOOSE i \in 1..Len(existingNodes) :
        /\ existingNodes[i].name = name /\ existingNodes[i].credentials # Undefined
        /\ \A j \in 1..Len(existingNodes) :
             (existingNodes[j].name = name /\ existingNodes[j].credentials # Undefined)
                => j <= i].credentials

\* Variant: the stored credentials looked up by node id.
MergeCredentialsById(existingNodes, node) ==
    IF /\ node.credentials = Undefined
       /\ \E i \in 1..Len(existingNodes) :
            existingNodes[i].id = node.id /\ existingNodes[i].credentials # Undefined
    THEN [node EXCEPT !.credentials =
            existingNodes[CHOOSE i \in 1..Len(existingNodes) :
                existingNodes[i].id = node.id
                /\ existingNodes[i].credentials # Undefined].credentials]
    ELSE node

\* Variant: the stored credentials replace those of the file.
MergeCredentialsAlways(existingNodes, node) ==
    IF ExistingCredsHas(existingNodes, node.name)
    THEN [node EXCEPT !.credentials = ExistingCredsGet(existingNodes, node.name)]
    ELSE node

\* The body of the merge loop of `workflow update`.
MergeCredentials(existingNodes, node) ==
    IF node.credentials = Undefined /\ ExistingCredsHas(existingNodes, node.name)
    THEN [node EXCEPT !.credentials = ExistingCredsGet(existingNodes, node.name)]
    ELSE node

\* workflowData after the merge.
MergedWorkflowData(existing, workflowData) ==
    IF "nodes" \in DOMAIN workflowData
    THEN [workflowData EXCEPT !.nodes =
            [i \in 1..Len(workflowData.nodes) |->
                MergeCredentials(existing.nodes, workflowData.nodes[i])]]
    ELSE workflowData

\* Variant: the payload copies a node without its credentials.
PayloadNodeNoCredentials(node) ==
    [ id          |-> node.id,
      name        |-> node.name,
      type        |-> node.type,
      typeVersion |-> node.typeVersion,
      position    |-> node.position,
      parameters  |-> node.parameters,
      credentials |-> Undefined,
      webhookId   |-> node.webhookId ]

\* The eight node fields the update payload copies.
PayloadNode(node) ==
    [ id          |-> node.id,
      name        |-> node.name,
      type        |-> node.type,
      typeVersion |-> node.typeVersion,
      position    |-> node.position,
      parameters  |-> node.parameters,
      credentials |-> node.credentials,
      webhookId   |-> node.webhookId ]

\* updatePayload of set-code and set-setting as JSON.stringify sends it: a
\* property whose value is undefined is left out.
UpdatePayload(workflow) ==
    [ f \in AcceptedFields \cap DOMAIN workflow |->
        IF f = "nodes"
        THEN [i \in 1..Len(workflow.nodes) |-> PayloadNode(workflow.nodes[i])]
        ELSE workflow[f] ]

\* client.updateWorkflow: the PUT is issued; the server answers 400 to a body
\* with a field it does not accept, which ends the command in the catch of
\* main, and stores the fields of an accepted body.
UpdateWorkflow(body) ==
    /\ requests' = Append(requests, body)
    /\ IF DOMAIN body \subseteq AcceptedFields
       THEN /\ remote' = [f \in DOMAIN remote \cup DOMAIN body |->
                            IF f \in DOMAIN body THEN body[f] ELSE remote[f]]
            /\ pc' = "done"
       ELSE /\ remote' = remote
            /\ pc' = "error"

\* The process exits before any request.
ExitEarly ==
    /\ pc' = "error"
    /\ UNCHANGED <<remote, fetched, requests>>

\* The process exits after the GET.
ExitAfterFetch ==
    /\ pc' = "error"
    /\ fetched' = <<remote>>
    /\ UNCHANGED <<remote, requests>>

InitUpdate ==
    /\ pc = "start"
    /\ \E ns \in RemoteNodeLists, st \in RemoteSettings, hasSettings \in BOOLEAN :
         /\ (~hasSettings => st = <<>>)
         /\ remote = RemoteDoc(ns, st, hasSettings)
    /\ fetched = <<>>
    /\ requests = <<>>
    /\ wf1 = NoWorkflow
    /\ wf2 = NoWorkflow
    /\ added = <<>>
    /\ removed = <<>>
    /\ modified = <<>>
    /\ unchanged = <<>>
    /\ tempFiles = <<>>
    /\ execution = NoTrace
    /\ trace = NoTrace
    /\ details = NoTrace
    /\ output = <<>>
    /\ parsed = NoOptions
    /\ AiUnused
    /\ FetchUnused
    /\ TokenUnused
    /\ TagsUnused
    /\ ThrottleUnused

\* The command line of a `workflow` subcommand: parsed.command and
\* parsed.commandArgs, and with them the content of the file the command
\* line names, <<>> when there is no such file.
CommandLine(commandArgs, file) ==
    [command |-> "workflow", commandArgs |-> commandArgs, file |-> file]

\* `workflow update <id> <file.json>`
UpdateCmd(workflowData) ==
    /\ pc = "start"
    /\ fetched' = <<remote>>
    /\ UpdateWorkflow(MergedWorkflowData(remote, workflowData))
    /\ parsed' = CommandLine(<<"update", "wf-1">>, <<workflowData>>)
    /\ UNCHANGED <<diffVars, execution, trace, details, output, otherVars>>

\* `workflow set-code <id> <node-name> <file.js>`
SetCodeCmd(nodeName, fileExists, jsCode) ==
    /\ pc = "start"
    /\ IF ~fileExists
       THEN ExitEarly
       ELSE IF ~MapHas(remote.nodes, nodeName)
       THEN ExitAfterFetch
       ELSE LET nodeIndex == CHOOSE i \in 1..Len(remote.nodes) :
                                /\ remote.nodes[i].name = nodeName
                                /\ \A j \in 1..(i - 1) : remote.nodes[j].name # nodeName
                node == remote.nodes[nodeIndex]
            IN  IF ~TypeIncludesCode(node.type)
                THEN ExitAfterFetch
                ELSE /\ fetched' = <<remote>>
                     /\ UpdateWorkflow(UpdatePayload(
                            [remote EXCEPT !.nodes[nodeIndex].parameters =
                                ObjSet(node.parameters, "jsCode", jsCode)]))
    /\ parsed' = CommandLine(<<"set-code", "wf-1", nodeName>>,
                             IF fileExists THEN <<jsCode>> ELSE <<>>)
    /\ UNCHANGED <<diffVars, execution, trace, details, output, otherVars>>

\* `workflow set-setting <id> <key> <value>`
SetSettingCmd(settingKey, settingValue) ==
    /\ pc = "start"
    /\ fetched' = <<remote>>
    /\ LET settings == IF "settings" \in DOMAIN remote THEN remote.settings ELSE <<>>
           newSettings == IF settingValue = "null" \/ settingValue = "none"
                          THEN ObjDelete(settings, settingKey)
                          ELSE ObjSet(settings, settingKey, settingValue)
           workflow == [f \in DOMAIN remote \cup {"settings"} |->
                            IF f = "settings" THEN newSettings ELSE remote[f]]
       IN  UpdateWorkflow(UpdatePayload(workflow))
    /\ parsed' = CommandLine(<<"set-setting", "wf-1", settingKey, settingValue>>, <<>>)
    /\ UNCHANGED <<diffVars, execution, trace, details, output, otherVars>>

\* The node names given to set-code: those of the model's nodes and one that
\* differs from a node's name in case only.
SetCodeNames == NodeNames \cup {"x"}

NextUpdate ==
    \/ \E workflowData \in FileDocs : UpdateCmd(workflowData)
    \/ \E nodeName \in SetCodeNames, fileExists \in BOOLEAN :
         SetCodeCmd(nodeName, fileExists, "return 2")
    \/ \E settingKey \in {"executionOrder", "errorWorkflow"},
          settingValue \in {"wf-7", "null", "none"} :
         SetSettingCmd(settingKey, settingValue)

SpecUpdate == InitUpdate /\ [][NextUpdate]_vars

(***************************************************************************)
(* Properties of the update commands                                       *)
(***************************************************************************)
\* C8: every PUT /workflows/{id} body sent by update, set-code and
\* set-setting has top-level fields within {name, nodes, connections,
\* settings}.
C8_OnlyAcceptedFields ==
    \A i \in 1..Len(requests) : DOMAIN requests[i] \subseteq AcceptedFields

\* C9: in every PUT body, each node whose name is the name of a node with
\* credentials in the workflow fetched just before carries credentials,
\* whatever its id.
C9_CredentialsByName ==
    \A i \in 1..Len(requests) :
        "nodes" \in DOMAIN requests[i] =>
            \A k \in 1..Len(requests[i].nodes) :
                LET node == requests[i].nodes[k]
                IN  (\E e \in Range(fetched[1].nodes) :
                        e.name = node.name /\ e.credentials # Undefined)
                    => node.credentials # Undefined

\* A sent node that took the stored credentials of its name under another id.
C9_Witness ==
    /\ requests # <<>>
    /\ "nodes" \in DOMAIN requests[1]
    /\ \E node \in Range(requests[1].nodes), e \in Range(fetched[1].nodes) :
         /\ e.name = node.name
         /\ e.id # node.id
         /\ e.credentials = "credA"
         /\ node.credentials = "credA"

(***************************************************************************)
(* execution: the trace of an execution record                             *)
(*                                                                         *)
(* A node name is a sequence of characters, so that the name filter's      *)
(* case-insensitive substring test is computed.  The lineage (`input`) and *)
(* payload (`output`) of a trace entry are not modelled.                   *)
(***************************************************************************)
MaxRuns == 2

RunNodeNames == { <<"H", "t", "t", "p">>, <<"A", "g", "e", "n", "t">> }

\* One run of a node: two start times, so that ties occur, and the three
\* statuses.
RunValues ==
    { [executionStatus |-> "error",   startTime |-> 10, executionTime |-> 5],
      [executionStatus |-> "failed",  startTime |-> 10, executionTime |-> 5],
      [executionStatus |-> "success", startTime |-> 20, executionTime |-> 5] }

RunLists == UNION { [1..n -> RunValues] : n \in 0..MaxRuns }

\* runData: the node names in key order, each with its runs.
RunDatas ==
    UNION { { rd \in [1..n -> { [name |-> nm, runs |-> rs] : nm \in RunNodeNames, rs \in RunLists }] :
                \A i, j \in 1..n : i # j => rd[i].name # rd[j].name }
            : n \in 0..Cardinality(RunNodeNames) }

\* An execution record; hasRunData is false for a record without run data.
ExecutionRecord(runData, hasRunData) ==
    [ f \in {"id", "workflowId", "status", "startedAt", "stoppedAt"}
            \cup (IF hasRunData THEN {"runData"} ELSE {}) |->
        CASE f = "id"         -> "ex-1"
          [] f = "workflowId" -> "wf-1"
          [] f = "status"     -> "success"
          [] f = "startedAt"  -> 10
          [] f = "stoppedAt"  -> 30
          [] f = "runData"    -> runData ]

\* Variant: the run index counted from 0.
TraceEntryZeroBased(nodeName, runs, i) ==
    [ name          |-> nodeName,
      runIndex      |-> i - 1,
      status        |-> runs[i].executionStatus,
      startTime     |-> runs[i].startTime,
      executionTime |-> runs[i].executionTime ]

\* The NodeTraceEntry of the run at (1-based) place i of a node's runs.
TraceEntry(nodeName, runs, i) ==
    [ name          |-> nodeName,
      runIndex      |-> i,
      status        |-> runs[i].executionStatus,
      startTime     |-> runs[i].startTime,
      executionTime |-> runs[i].executionTime ]

\* One entry per run, for every (nodeName, runs) pair in key order.
RECURSIVE TraceEntries(_)
TraceEntries(runData) ==
    IF runData = <<>> THEN <<>>
    ELSE [i \in 1..Len(runData[1].runs) |->
            TraceEntry(runData[1].name, runData[1].runs, i)]
         \o TraceEntries(Tail(runData))

\* Variant: a sort that places an entry before the entries of equal startTime.
RECURSIVE SortByStartTimeUnstable(_)
SortByStartTimeUnstable(entries) ==
    IF entries = <<>> THEN <<>>
    ELSE LET sorted == SortByStartTimeUnstable(SubSeq(entries, 1, Len(entries) - 1))
             e == entries[Len(entries)]
             k == Cardinality({i \in 1..Len(sorted) : sorted[i].startTime < e.startTime})
         IN  SubSeq(sorted, 1, k) \o <<e>> \o SubSeq(sorted, k + 1, Len(sorted))

\* A stable sort by startTime: each entry goes behind the entries, already
\* placed, that start no later.
RECURSIVE SortByStartTime(_)
SortByStartTime(entries) ==
    IF entries = <<>> THEN <<>>
    ELSE LET sorted == SortByStartTime(SubSeq(entries, 1, Len(entries) - 1))
             e == entries[Len(entries)]
             k == Cardinality({i \in 1..Len(sorted) : sorted[i].startTime <= e.startTime})
         IN  SubSeq(sorted, 1, k) \o <<e>> \o SubSeq(sorted, k + 1, Len(sorted))

\* extractAllNodeData: a record without run data gives an empty nodes list.
ExtractAllNodeData(exec) ==
    [ executionId |-> exec.id,
      workflowId  |-> exec.workflowId,
      status      |-> exec.status,
      startedAt   |-> exec.startedAt,
      stoppedAt   |-> exec.stoppedAt,
      nodes       |-> IF "runData" \in DOMAIN exec
                      THEN SortByStartTime(TraceEntries(exec.runData))
                      ELSE <<>> ]

\* String.prototype.toLowerCase, on the letters of the model.
LowerChar(c) ==
    CASE c = "H" -> "h" [] c = "A" -> "a" [] c = "T" -> "t" [] c = "E" -> "e"
      [] c = "L" -> "l" [] c = "M" -> "m"
      [] OTHER -> c
ToLowerCase(str) == [i \in 1..Len(str) |-> LowerChar(str[i])]
\* String.prototype.includes
Includes(str, part) ==
    \E i \in 0..(Len(str) - Len(part)) : SubSeq(str, i + 1, i + Len(part)) = part

Reverse(s) == [i \in 1..Len(s) |-> s[Len(s) + 1 - i]]

\* Variant: the matching entries collected last match first.
FilterNodesByNameReversed(t, pattern) ==
    [t EXCEPT !.nodes =
        Reverse(SelectSeq(@, LAMBDA e : Includes(ToLowerCase(e.name), ToLowerCase(pattern))))]

\* filterNodesByName: a case-insensitive substring match on the entry's name.
FilterNodesByName(t, pattern) ==
    [t EXCEPT !.nodes =
        SelectSeq(@, LAMBDA e : Includes(ToLowerCase(e.name), ToLowerCase(pattern)))]

\* Variant: only the status "error" counts as a failure.
FilterFailedNodesErrorOnly(t) ==
    [t EXCEPT !.nodes = SelectSeq(@, LAMBDA e : e.status = "error")]

\* filterFailedNodes: the entries whose status is "error" or "failed".
FilterFailedNodes(t) ==
    [t EXCEPT !.nodes = SelectSeq(@, LAMBDA e : e.status \in {"error", "failed"})]

\* The --node patterns; the empty string stands for no --node option.
NodePatterns == { <<>>, <<"H", "T">>, <<"e">>, <<"t">>, <<"z">> }

InitTrace ==
    /\ pc = "start"
    /\ \E rd \in RunDatas, hasRunData \in BOOLEAN :
         /\ (~hasRunData => rd = <<>>)
         /\ execution = ExecutionRecord(rd, hasRunData)
    /\ trace = NoTrace
    /\ details = NoTrace
    /\ output = <<>>
    /\ parsed = NoOptions
    /\ AiUnused
    /\ FetchUnused
    /\ TokenUnused
    /\ TagsUnused
    /\ ThrottleUnused
    /\ wf1 = NoWorkflow
    /\ wf2 = NoWorkflow
    /\ added = <<>>
    /\ removed = <<>>
    /\ modified = <<>>
    /\ unchanged = <<>>
    /\ tempFiles = <<>>
    /\ remote = NoWorkflow
    /\ fetched = <<>>
    /\ requests = <<>>

\* Variant: the failed filter applied, and reported, before the name filter.
ExecutionCmdFailedFirst(node, errorsOnly, json, verbose) ==
    /\ pc = "start"
    /\ trace' = ExtractAllNodeData(execution)
    /\ LET failed == IF errorsOnly THEN FilterFailedNodes(trace') ELSE trace'
           byName == IF node # <<>> THEN FilterNodesByName(failed, node) ELSE failed
       IN  IF errorsOnly /\ failed.nodes = <<>>
           THEN /\ details' = failed
                /\ output' = Append(output, "No failed nodes")
                /\ tempFiles' = tempFiles
           ELSE IF node # <<>> /\ byName.nodes = <<>>
           THEN /\ details' = byName
                /\ output' = Append(output, "No nodes matching")
                /\ tempFiles' = tempFiles
           ELSE /\ details' = byName
                /\ IF json
                   THEN /\ tempFiles' = Append(tempFiles, byName)
                        /\ output' = Append(output, "JSON written")
                   ELSE /\ tempFiles' = tempFiles
                        /\ output' = Append(output,
                              IF verbose \/ node # <<>> THEN "all node data"
                              ELSE "compact summary")
    /\ parsed' = [node |-> node, errorsOnly |-> errorsOnly, json |-> json,
                  verbose |-> verbose]
    /\ pc' = "done"
    /\ UNCHANGED <<execution, wf1, wf2, added, removed, modified, unchanged,
                   updateVars, otherVars>>

\* `execution <id> [--node <name>] [--errors] [--json] [--verbose]`, without --ai
ExecutionCmd(node, errorsOnly, json, verbose) ==
    /\ pc = "start"
    /\ trace' = ExtractAllNodeData(execution)
    /\ LET byName == IF node # <<>> THEN FilterNodesByName(trace', node) ELSE trace'
           failed == IF errorsOnly THEN FilterFailedNodes(byName) ELSE byName
       IN  IF node # <<>> /\ byName.nodes = <<>>
           THEN /\ details' = byName
                /\ output' = Append(output, "No nodes matching")
                /\ tempFiles' = tempFiles
           ELSE IF errorsOnly /\ failed.nodes = <<>>
           THEN /\ details' = failed
                /\ output' = Append(output, "No failed nodes")
                /\ tempFiles' = tempFiles
           ELSE /\ details' = failed
                /\ IF json
                   THEN /\ tempFiles' = Append(tempFiles, failed)
                        /\ output' = Append(output, "JSON written")
                   ELSE /\ tempFiles' = tempFiles
                        /\ output' = Append(output,
                              IF verbose \/ node # <<>> THEN "all node data"
                              ELSE "compact summary")
    /\ parsed' = [node |-> node, errorsOnly |-> errorsOnly, json |-> json,
                  verbose |-> verbose]
    /\ pc' = "done"
    /\ UNCHANGED <<execution, wf1, wf2, added, removed, modified, unchanged,
                   updateVars, otherVars>>

NextTrace ==
    \E node \in NodePatterns, errorsOnly \in BOOLEAN, json \in BOOLEAN, verbose \in BOOLEAN :
        ExecutionCmd(node, errorsOnly, json, verbose)

SpecTrace == InitTrace /\ [][NextTrace]_vars

(***************************************************************************)
(* Properties of the trace                                                 *)
(***************************************************************************)
RECURSIVE SumOfRuns(_)
SumOfRuns(runData) ==
    IF runData = <<>> THEN 0 ELSE Len(runData[1].runs) + SumOfRuns(Tail(runData))

RunDataOf(exec) == IF "runData" \in DOMAIN exec THEN exec.runData ELSE <<>>

\* C10: the built trace holds one entry per run: its length is the sum of the
\* run-array lengths, and the k runs of a node name give k entries that carry
\* the run indexes 1..k, each once.
C10_OneEntryPerRun ==
    pc = "done" =>
        LET rd == RunDataOf(execution)
        IN  /\ Len(trace.nodes) = SumOfRuns(rd)
            /\ \A p \in 1..Len(rd) :
                 LET mine == {i \in 1..Len(trace.nodes) : trace.nodes[i].name = rd[p].name}
                 IN  /\ Cardinality(mine) = Len(rd[p].runs)
                     /\ {trace.nodes[i].runIndex : i \in mine} = 1..Len(rd[p].runs)
            /\ \A i \in 1..Len(trace.nodes) :
                 \E p \in 1..Len(rd) : trace.nodes[i].name = rd[p].name

\* Two nodes, one of them with two runs.
C10_Witness ==
    /\ pc = "done"
    /\ Len(RunDataOf(execution)) = 2
    /\ Len(RunDataOf(execution)[1].runs) = 2
    /\ Len(RunDataOf(execution)[2].runs) = 1
    /\ Len(trace.nodes) = 3

\* The place of a node name among the keys of runData.
KeyPlace(rd, name) == CHOOSE p \in 1..Len(rd) : rd[p].name = name

\* C11: the nodes of the built trace are in non-decreasing order of
\* startTime, and entries of equal startTime keep their encounter order:
\* the order of their names among the keys of runData, then the run index.
C11_SortedStable ==
    pc = "done" =>
        LET rd == RunDataOf(execution)
            n == trace.nodes
        IN  \A i, j \in 1..Len(n) :
                i < j =>
                    /\ n[i].startTime <= n[j].startTime
                    /\ n[i].startTime = n[j].startTime =>
                         \/ KeyPlace(rd, n[i].name) < KeyPlace(rd, n[j].name)
                         \/ /\ n[i].name = n[j].name
                            /\ n[i].runIndex < n[j].runIndex

\* The sort moved an entry, and two nodes tie on startTime.
C11_Witness ==
    /\ pc = "done"
    /\ trace.nodes # TraceEntries(RunDataOf(execution))
    /\ \E i, j \in 1..Len(trace.nodes) :
         /\ i < j
         /\ trace.nodes[i].startTime = trace.nodes[j].startTime
         /\ trace.nodes[i].name # trace.nodes[j].name

\* sub is seq with some of its elements left out.
RECURSIVE IsSubsequence(_, _)
IsSubsequence(sub, seq) ==
    IF sub = <<>> THEN TRUE
    ELSE IF seq = <<>> THEN FALSE
    ELSE IF Head(sub) = Head(seq) THEN IsSubsequence(Tail(sub), Tail(seq))
    ELSE IsSubsequence(sub, Tail(seq))

\* C12: filtering by name and filtering the failed entries are idempotent,
\* never lengthen the nodes list, and give a subsequence of the nodes they
\* were given, in the same order; so does the handler's combination of them.
C12_FiltersShrink ==
    pc = "done" =>
        /\ \A p \in NodePatterns :
             LET once == FilterNodesByName(trace, p)
             IN  /\ FilterNodesByName(once, p) = once
                 /\ Len(once.nodes) <= Len(trace.nodes)
                 /\ IsSubsequence(once.nodes, trace.nodes)
        /\ LET once == FilterFailedNodes(trace)
           IN  /\ FilterFailedNodes(once) = once
               /\ Len(once.nodes) <= Len(trace.nodes)
               /\ IsSubsequence(once.nodes, trace.nodes)
        /\ IsSubsequence(details.nodes, trace.nodes)
        /\ parsed.node # <<>> => FilterNodesByName(details, parsed.node) = details
        /\ parsed.errorsOnly => FilterFailedNodes(details) = details

\* A name filter that kept two entries and dropped another.
C12_Witness ==
    /\ pc = "done"
    /\ parsed.node # <<>>
    /\ Len(details.nodes) >= 2
    /\ Len(details.nodes) < Len(trace.nodes)

\* C13: `--errors` alone gives a trace with the top-level fields of the built
\* trace whose nodes are exactly the built entries of status "error" or
\* "failed", in their order; the built trace is left as it was.
C13_FailedOnly ==
    (pc = "done" /\ parsed.errorsOnly /\ parsed.node = <<>>) =>
        /\ \A f \in DOMAIN trace \ {"nodes"} : details[f] = trace[f]
        /\ DOMAIN details = DOMAIN trace
        /\ IsSubsequence(details.nodes, trace.nodes)
        /\ \A i \in 1..Len(trace.nodes) :
             (\E k \in 1..Len(details.nodes) : details.nodes[k] = trace.nodes[i])
                 <=> trace.nodes[i].status \in {"error", "failed"}
        /\ trace = ExtractAllNodeData(execution)

\* Entries of all three statuses, the two failure statuses kept.
C13_Witness ==
    /\ pc = "done"
    /\ parsed.errorsOnly
    /\ parsed.node = <<>>
    /\ \E e \in Range(details.nodes) : e.status = "error"
    /\ \E e \in Range(details.nodes) : e.status = "failed"
    /\ \E e \in Range(trace.nodes) : e.status = "success"

\* The entries of the built trace whose name matches the --node pattern.
NameMatches ==
    {e \in Range(trace.nodes) : Includes(ToLowerCase(e.name), ToLowerCase(parsed.node))}

\* C17: when the name filter leaves no node the command says so, and when
\* (the name filter having left some) the failed filter leaves none it says
\* that; either way it ends normally, prints no node data and writes no JSON
\* file.  The name filter is consulted first.
C17_NothingFound ==
    pc \in {"done", "error"} =>
        /\ (parsed.node # <<>> /\ NameMatches = {}) =>
              /\ pc = "done"
              /\ output = <<"No nodes matching">>
              /\ tempFiles = <<>>
        /\ /\ parsed.errorsOnly
           /\ parsed.node # <<>> => NameMatches # {}
           /\ \A e \in (IF parsed.node # <<>> THEN NameMatches ELSE Range(trace.nodes)) :
                 e.status \notin {"error", "failed"}
           => /\ pc = "done"
              /\ output = <<"No failed nodes">>
              /\ tempFiles = <<>>

\* --node, --errors and --json given; no name matches although the trace
\* holds failed entries, and nothing but the message comes out.
C17_Witness ==
    /\ pc = "done"
    /\ parsed.node # <<>>
    /\ parsed.errorsOnly
    /\ parsed.json
    /\ NameMatches = {}
    /\ \E e \in Range(trace.nodes) : e.status = "error"
    /\ output = <<"No nodes matching">>

(***************************************************************************)
(* execution --ai: the token exchanges of an execution record              *)
(*                                                                         *)
(* A run carries the first output item of its ai_languageModel channel and *)
(* of its main channel, each <<>> when the channel has none.  The prompts  *)
(* of the details are not modelled.                                        *)
(***************************************************************************)
MaxAiRuns == 2

TokenFields == {"promptTokens", "completionTokens", "totalTokens"}

AiNodeNames == << <<"x", "A", "g", "e", "n", "t">>, <<"L", "L", "M">>, <<"H", "t", "t", "p">> >>

\* The substrings that make a node name AI-relevant.
AiKeywords ==
    { <<"o", "p", "e", "n", "a", "i">>, <<"c", "h", "a", "t", " ", "m", "o", "d", "e", "l">>,
      <<"l", "l", "m">>, <<"a", "n", "t", "h", "r", "o", "p", "i", "c">>,
      <<"g", "e", "m", "i", "n", "i">>, <<"a", "g", "e", "n", "t">> }

\* A run with both channels; one whose tokenUsage lacks two fields and whose
\* main output is the empty string; one with a main output only.
AiRunValues ==
    { [startTime |-> 10, executionTime |-> 5,
       lm |-> << [tokenUsage |-> [promptTokens |-> 10, completionTokens |-> 5,
                                  totalTokens |-> 15],
                  text |-> "hi"] >>,
       main |-> << [output |-> "hi"] >>],
      [startTime |-> 10, executionTime |-> 5,
       lm |-> << [tokenUsage |-> [promptTokens |-> 7], text |-> "yo"] >>,
       main |-> << [output |-> ""] >>],
      [startTime |-> 10, executionTime |-> 5,
       lm |-> <<>>,
       main |-> << [output |-> "hi"] >>] }

AiRunLists == UNION { [1..n -> AiRunValues] : n \in 0..MaxAiRuns }

\* runData with the three node names as keys, in this order.
AiRunDatas ==
    { [p \in 1..Len(AiNodeNames) |-> [name |-> AiNodeNames[p], runs |-> rs[p]]] :
        rs \in [1..Len(AiNodeNames) -> AiRunLists] }

IsAiRelevant(nodeName) ==
    \E kw \in AiKeywords : Includes(ToLowerCase(nodeName), kw)

\* A token field of a tokenUsage or of an exchange's tokens, 0 when absent.
TokenOf(tokens, f) == IF f \in DOMAIN tokens THEN tokens[f] ELSE 0

\* The exchange of the ai_languageModel channel's first output item.
ModelExchange(nodeName, run, i) ==
    [ nodeName      |-> nodeName,
      runIndex      |-> i,
      timestamp     |-> run.startTime,
      executionTime |-> run.executionTime,
      tokens        |-> [f \in TokenFields |-> TokenOf(run.lm[1].tokenUsage, f)],
      output        |-> run.lm[1].text,
      isAgentOutput |-> FALSE ]

\* Variant: the agent exchange repeats the token counts of the model channel.
AgentExchangeWithTokens(nodeName, run, i) ==
    [ nodeName      |-> nodeName,
      runIndex      |-> i,
      timestamp     |-> run.startTime,
      executionTime |-> run.executionTime,
      tokens        |-> IF run.lm # <<>>
                        THEN [f \in TokenFields |-> TokenOf(run.lm[1].tokenUsage, f)]
                        ELSE [f \in {} |-> 0],
      output        |-> run.main[1].output,
      isAgentOutput |-> TRUE ]

\* The exchange synthesized from an agent's main output: empty tokens.
AgentExchange(nodeName, run, i) ==
    [ nodeName      |-> nodeName,
      runIndex      |-> i,
      timestamp     |-> run.startTime,
      executionTime |-> run.executionTime,
      tokens        |-> [f \in {} |-> 0],
      output        |-> run.main[1].output,
      isAgentOutput |-> TRUE ]

\* Variant: the agent exchange synthesized whatever the node's name.
ExchangesOfRunAnyName(nodeName, run, i) ==
    (IF run.lm # <<>> THEN <<ModelExchange(nodeName, run, i)>> ELSE <<>>)
    \o (IF run.main # <<>> /\ run.main[1].output # ""
        THEN <<AgentExchange(nodeName, run, i)>> ELSE <<>>)

\* The exchanges of one run of an AI-relevant node.
ExchangesOfRun(nodeName, run, i) ==
    (IF run.lm # <<>> THEN <<ModelExchange(nodeName, run, i)>> ELSE <<>>)
    \o (IF /\ run.main # <<>>
           /\ run.main[1].output # ""
           /\ Includes(ToLowerCase(nodeName), <<"a", "g", "e", "n", "t">>)
        THEN <<AgentExchange(nodeName, run, i)>> ELSE <<>>)

RECURSIVE ExchangesOfRuns(_, _, _)
ExchangesOfRuns(nodeName, runs, i) ==
    IF i > Len(runs) THEN <<>>
    ELSE ExchangesOfRun(nodeName, runs[i], i) \o ExchangesOfRuns(nodeName, runs, i + 1)

RECURSIVE Exchanges(_)
Exchanges(runData) ==
    IF runData = <<>> THEN <<>>
    ELSE (IF IsAiRelevant(runData[1].name)
          THEN ExchangesOfRuns(runData[1].name, runData[1].runs, 1)
          ELSE <<>>)
         \o Exchanges(Tail(runData))

\* The sum of a token field over a sequence of exchanges.
RECURSIVE SumTokens(_, _)
SumTokens(exchanges, f) ==
    IF exchanges = <<>> THEN 0
    ELSE TokenOf(exchanges[1].tokens, f) + SumTokens(Tail(exchanges), f)

ExtractAiDetails(exec) ==
    LET exchanges == Exchanges(exec.runData)
    IN  [ executionId |-> exec.id,
          workflowId  |-> exec.workflowId,
          status      |-> exec.status,
          startedAt   |-> exec.startedAt,
          stoppedAt   |-> exec.stoppedAt,
          exchanges   |-> exchanges,
          totals      |-> [f \in TokenFields |-> SumTokens(exchanges, f)] ]

InitAi ==
    /\ pc = "start"
    /\ \E rd \in AiRunDatas : execution = ExecutionRecord(rd, TRUE)
    /\ trace = NoTrace
    /\ details = NoTrace
    /\ output = <<>>
    /\ parsed = NoOptions
    /\ AiUnused
    /\ FetchUnused
    /\ TokenUnused
    /\ TagsUnused
    /\ ThrottleUnused
    /\ wf1 = NoWorkflow
    /\ wf2 = NoWorkflow
    /\ added = <<>>
    /\ removed = <<>>
    /\ modified = <<>>
    /\ unchanged = <<>>
    /\ tempFiles = <<>>
    /\ remote = NoWorkflow
    /\ fetched = <<>>
    /\ requests = <<>>

\* `execution <id> --ai [--json]`
ExecutionAiCmd(json) ==
    /\ pc = "start"
    /\ aiDetails' = ExtractAiDetails(execution)
    /\ IF json
       THEN /\ tempFiles' = Append(tempFiles, aiDetails')
            /\ output' = Append(output, "JSON written")
       ELSE /\ tempFiles' = tempFiles
            /\ output' = Append(output, "ai details")
    /\ parsed' = [NoOptions EXCEPT !.json = json]
    /\ pc' = "done"
    /\ UNCHANGED <<execution, trace, details, wf1, wf2, added, removed, modified,
                   unchanged, updateVars, fetchVars, tokenVars, tagVars, throttleVars>>

NextAi == \E json \in BOOLEAN : ExecutionAiCmd(json)

SpecAi == InitAi /\ [][NextAi]_vars

(***************************************************************************)
(* Properties of the AI details                                            *)
(***************************************************************************)
\* C14: each total of the AI details is the sum of that token field over the
\* exchanges that are not agent output, an absent field counting 0; the agent
\* exchanges add nothing, so it is also the sum over all exchanges.
C14_TotalsSkipAgent ==
    pc = "done" =>
        \A f \in TokenFields :
            /\ aiDetails.totals[f] =
                 SumTokens(SelectSeq(aiDetails.exchanges, LAMBDA e : ~e.isAgentOutput), f)
            /\ aiDetails.totals[f] = SumTokens(aiDetails.exchanges, f)
            /\ SumTokens(SelectSeq(aiDetails.exchanges, LAMBDA e : e.isAgentOutput), f) = 0

\* An agent's run gave a model exchange with tokens and an agent exchange, and
\* another node's exchange lacks token fields.
C14_Witness ==
    /\ pc = "done"
    /\ \E i, j \in 1..Len(aiDetails.exchanges) :
         /\ aiDetails.exchanges[i].isAgentOutput
         /\ ~aiDetails.exchanges[j].isAgentOutput
         /\ aiDetails.exchanges[i].nodeName = aiDetails.exchanges[j].nodeName
         /\ aiDetails.exchanges[i].runIndex = aiDetails.exchanges[j].runIndex
         /\ aiDetails.exchanges[j].tokens.totalTokens = 15
    /\ \E r \in Range(execution.runData[2].runs) :
         r.lm # <<>> /\ "totalTokens" \notin DOMAIN r.lm[1].tokenUsage
    /\ aiDetails.totals.promptTokens > 10

\* The places in the exchanges of the run at place i of the runs of name.
ExchangesAt(name, i) ==
    {k \in 1..Len(aiDetails.exchanges) :
        /\ aiDetails.exchanges[k].nodeName = name
        /\ aiDetails.exchanges[k].runIndex = i}

\* C15: a run gives at most one exchange of the ai_languageModel channel (not
\* agent output), and at most one agent exchange, whose tokens are all 0 and
\* which comes only from a node whose name contains "agent" and whose first
\* main output item has a truthy output; a node whose name holds none of the
\* keywords gives no exchange.
C15_ExchangesPerRun ==
    pc = "done" =>
        /\ \A p \in 1..Len(execution.runData) :
             LET name == execution.runData[p].name
                 runs == execution.runData[p].runs
             IN  \A i \in 1..Len(runs) :
                    LET model == {k \in ExchangesAt(name, i) : ~aiDetails.exchanges[k].isAgentOutput}
                        agent == {k \in ExchangesAt(name, i) : aiDetails.exchanges[k].isAgentOutput}
                    IN  /\ Cardinality(model) <= 1
                        /\ Cardinality(agent) <= 1
                        /\ model # {} => runs[i].lm # <<>>
                        /\ agent # {} =>
                             /\ Includes(ToLowerCase(name), <<"a", "g", "e", "n", "t">>)
                             /\ runs[i].main # <<>>
                             /\ runs[i].main[1].output # ""
                             /\ \A k \in agent, f \in TokenFields :
                                  TokenOf(aiDetails.exchanges[k].tokens, f) = 0
                        /\ (\A kw \in AiKeywords : ~Includes(ToLowerCase(name), kw))
                             => ExchangesAt(name, i) = {}
        /\ \A k \in 1..Len(aiDetails.exchanges) :
             \E p \in 1..Len(execution.runData) :
                /\ aiDetails.exchanges[k].nodeName = execution.runData[p].name
                /\ aiDetails.exchanges[k].runIndex \in 1..Len(execution.runData[p].runs)

\* A run with two exchanges, a run of a model node with a main output and one
\* exchange, and a run with both channels of a node that is not AI-relevant.
C15_Witness ==
    /\ pc = "done"
    /\ \E p \in 1..Len(execution.runData) :
         Cardinality(ExchangesAt(execution.runData[p].name, 1)) = 2
    /\ \E p \in 1..Len(execution.runData) :
         /\ IsAiRelevant(execution.runData[p].name)
         /\ ~Includes(ToLowerCase(execution.runData[p].name), <<"a", "g", "e", "n", "t">>)
         /\ Len(execution.runData[p].runs) = 2
         /\ execution.runData[p].runs[2].main[1].output = "hi"
         /\ execution.runData[p].runs[2].lm # <<>>
         /\ Cardinality(ExchangesAt(execution.runData[p].name, 2)) = 1
    /\ \E p \in 1..Len(execution.runData) :
         /\ ~IsAiRelevant(execution.runData[p].name)
         /\ \E r \in Range(execution.runData[p].runs) : r.lm # <<>> /\ r.main[1].output = "hi"

(***************************************************************************)
(* workflow diff: the two fetches                                          *)
(*                                                                         *)
(* The two getWorkflow calls run concurrently; each ends resolved or        *)
(* rejected (a network failure or a response that is not ok).  The command *)
(* waits for Promise.all of the two; a rejection reaches the catch of main,*)
(* which prints the error and exits with status 1.  An answer that arrives *)
(* after the exit changes nothing but the fetch's own state.               *)
(***************************************************************************)
\* Variant: Promise.allSettled, which waits for both and never rejects.
PromiseAllSettled(f) ==
    IF \E i \in DOMAIN f : f[i] = "pending" THEN "pending" ELSE "resolved"

\* The state of Promise.all over promises in the states f.
PromiseAll(f) ==
    IF \E i \in DOMAIN f : f[i] = "rejected" THEN "rejected"
    ELSE IF \A i \in DOMAIN f : f[i] = "resolved" THEN "resolved"
    ELSE "pending"

InitFetch ==
    /\ pc = "fetching"
    /\ fetch = [i \in 1..2 |-> "pending"]
    /\ wf1 = NoWorkflow
    /\ wf2 = NoWorkflow
    /\ added = <<>>
    /\ removed = <<>>
    /\ modified = <<>>
    /\ unchanged = <<>>
    /\ tempFiles = <<>>
    /\ remote = NoWorkflow
    /\ fetched = <<>>
    /\ requests = <<>>
    /\ execution = NoTrace
    /\ trace = NoTrace
    /\ details = NoTrace
    /\ output = <<>>
    /\ parsed = NoOptions
    /\ AiUnused
    /\ TokenUnused
    /\ TagsUnused
    /\ ThrottleUnused

\* What the command does when one of its fetches settles into the states f.
AwaitPromiseAll(f) ==
    LET all == PromiseAll(f)
    IN  IF pc # "fetching" THEN pc' = pc /\ output' = output
        ELSE IF all = "rejected"
        THEN pc' = "error" /\ output' = Append(output, "Error")
        ELSE IF all = "resolved"
        THEN pc' = "start" /\ output' = output
        ELSE pc' = pc /\ output' = output

\* getWorkflow number i resolves with the document of the nodes ns.
FetchResolve(i, ns) ==
    /\ pc \in {"fetching", "error"}
    /\ fetch[i] = "pending"
    /\ fetch' = [fetch EXCEPT ![i] = "resolved"]
    /\ IF pc = "fetching" /\ i = 1
       THEN wf1' = [id |-> "wf-1", name |-> "First", nodes |-> ns]
       ELSE wf1' = wf1
    /\ IF pc = "fetching" /\ i = 2
       THEN wf2' = [id |-> "wf-2", name |-> "Second", nodes |-> ns]
       ELSE wf2' = wf2
    /\ AwaitPromiseAll(fetch')
    /\ UNCHANGED <<added, removed, modified, unchanged, tempFiles, updateVars,
                   execution, trace, details, parsed, aiVars, tokenVars, tagVars, throttleVars>>

\* getWorkflow number i rejects.
FetchReject(i) ==
    /\ pc \in {"fetching", "error"}
    /\ fetch[i] = "pending"
    /\ fetch' = [fetch EXCEPT ![i] = "rejected"]
    /\ AwaitPromiseAll(fetch')
    /\ UNCHANGED <<wf1, wf2, added, removed, modified, unchanged, tempFiles, updateVars,
                   execution, trace, details, parsed, aiVars, tokenVars, tagVars, throttleVars>>

NextFetch ==
    \/ \E ns \in NodeLists(ParamValues1, "none") : FetchResolve(1, ns)
    \/ \E ns \in NodeLists(ParamValues, "none") : FetchResolve(2, ns)
    \/ \E i \in 1..2 : FetchReject(i)
    \/ \E json \in BOOLEAN : DiffCmd(json)

SpecFetch == InitFetch /\ [][NextFetch]_vars

\* C16: once a fetch of `workflow diff` has failed the command has ended with
\* the error message and the error exit, whatever the other fetch did or
\* does: no list is built and no diff file is written.
C16_FetchFailure ==
    (\E i \in 1..2 : fetch[i] = "rejected") =>
        /\ pc = "error"
        /\ output = <<"Error">>
        /\ added = <<>> /\ removed = <<>> /\ modified = <<>> /\ unchanged = <<>>
        /\ tempFiles = <<>>

\* The first fetch brought a workflow with nodes, then the second failed.
C16_Witness ==
    /\ fetch[1] = "resolved"
    /\ fetch[2] = "rejected"
    /\ wf1.nodes # <<>>
    /\ pc = "error"

\* The first fetch failed, and the second answered after the exit.
C16_WitnessLate ==
    /\ fetch[1] = "rejected"
    /\ fetch[2] = "resolved"
    /\ wf2 = NoWorkflow
    /\ pc = "error"

(***************************************************************************)
(* The token extractor (src/n8ncli/scripts/token-extractor.js)             *)
(*                                                                         *)
(* A JSON value is a record tagged by its type: null, a number, a string   *)
(* (a sequence of characters), an array, or an object, whose props are     *)
(* <<key, value>> pairs in insertion order.  JUndefined is the value of a  *)
(* property that is absent.  Token counts are numbers and model names are  *)
(* strings wherever they occur.                                            *)
(***************************************************************************)
JUndefined == [t |-> "undefined"]
JNull == [t |-> "null"]
JNum(n) == [t |-> "num", n |-> n]
JStr(s) == [t |-> "str", s |-> s]
JArr(items) == [t |-> "arr", items |-> items]
JObj(props) == [t |-> "obj", props |-> props]

\* obj[key]; reading a property of null or undefined throws instead.
Prop(obj, key) ==
    IF obj.t = "obj" /\ \E i \in 1..Len(obj.props) : obj.props[i][1] = key
    THEN obj.props[CHOOSE i \in 1..Len(obj.props) : obj.props[i][1] = key][2]
    ELSE JUndefined

PropertyAccessThrows(v) == v.t \in {"null", "undefined"}

Truthy(v) ==
    CASE v.t \in {"null", "undefined"} -> FALSE
      [] v.t = "num" -> v.n # 0
      [] v.t = "str" -> v.s # <<>>
      [] OTHER -> TRUE

\* typeof v === 'object'
TypeofObject(v) == v.t \in {"null", "arr", "obj"}

\* a || b
Or(a, b) == IF Truthy(a) THEN a ELSE b

Unknown == JStr(<<"u", "n", "k", "n", "o", "w", "n">>)

\* The result findTokenUsage pushes for obj.tokenUsage, if any.
OwnTokenUsage(obj) ==
    IF Truthy(Prop(obj, "tokenUsage"))
    THEN << [tokenUsage |-> Prop(obj, "tokenUsage"),
             model |-> Or(Prop(obj, "model_name"),
                          Or(Prop(obj, "model"), Or(Prop(obj, "modelName"), Unknown)))] >>
    ELSE <<>>

\* The result findTokenUsage pushes for obj.llmOutput?.tokenUsage, if any.
LlmOutputTokenUsage(obj) ==
    LET llmOutput == Prop(obj, "llmOutput")
    IN  IF ~PropertyAccessThrows(llmOutput) /\ Truthy(Prop(llmOutput, "tokenUsage"))
        THEN << [tokenUsage |-> Prop(llmOutput, "tokenUsage"),
                 model |-> Or(Prop(llmOutput, "model_name"),
                              Or(Prop(llmOutput, "model"), Unknown))] >>
        ELSE <<>>

\* The result findTokenUsage pushes for an OpenAI style obj.usage, if any.
OpenAiUsage(obj) ==
    LET u == Prop(obj, "usage")
    IN  IF Truthy(u) /\ (Truthy(Prop(u, "prompt_tokens")) \/ Truthy(Prop(u, "completion_tokens")))
        THEN << [tokenUsage |-> JObj(<< <<"promptTokens", Prop(u, "prompt_tokens")>>,
                                        <<"completionTokens", Prop(u, "completion_tokens")>>,
                                        <<"totalTokens", Prop(u, "total_tokens")>> >>),
                 model |-> Or(Prop(obj, "model"), Unknown)] >>
        ELSE <<>>

\* findTokenUsage without the paths: the results for obj itself, then those
\* of its array items or of its object-valued properties, in order.
RECURSIVE FindTokenUsage(_)
RECURSIVE FindTokenUsageIn(_)
FindTokenUsageIn(values) ==
    IF values = <<>> THEN <<>>
    ELSE FindTokenUsage(Head(values)) \o FindTokenUsageIn(Tail(values))

FindTokenUsage(obj) ==
    IF ~Truthy(obj) \/ ~TypeofObject(obj) THEN <<>>
    ELSE OwnTokenUsage(obj) \o LlmOutputTokenUsage(obj) \o OpenAiUsage(obj)
         \o (IF obj.t = "arr"
             THEN FindTokenUsageIn(obj.items)
             ELSE FindTokenUsageIn(
                    [i \in 1..Len(SelectSeq(obj.props, LAMBDA kv : kv[2].t \in {"arr", "obj"})) |->
                        SelectSeq(obj.props, LAMBDA kv : kv[2].t \in {"arr", "obj"})[i][2]]))

\* usage.camel || usage.snake || 0
TokenCount(tokenUsage, camel, snake) ==
    Or(Prop(tokenUsage, camel), Or(Prop(tokenUsage, snake), JNum(0))).n

\* The nodeResult of each result of findTokenUsage on a run of nodeName.
NodeResults(nodeName, tokenData) ==
    [i \in 1..Len(tokenData) |->
        [ nodeName         |-> nodeName,
          model            |-> tokenData[i].model.s,
          promptTokens     |-> TokenCount(tokenData[i].tokenUsage, "promptTokens", "prompt_tokens"),
          completionTokens |-> TokenCount(tokenData[i].tokenUsage, "completionTokens", "completion_tokens"),
          totalTokens      |-> TokenCount(tokenData[i].tokenUsage, "totalTokens", "total_tokens") ]]

RECURSIVE NodeResultsOfRuns(_, _)
NodeResultsOfRuns(nodeName, runs) ==
    IF runs = <<>> THEN <<>>
    ELSE NodeResults(nodeName, FindTokenUsage(Head(runs)))
         \o NodeResultsOfRuns(nodeName, Tail(runs))

\* results.nodes as the loop over runData leaves it: a value of runData that
\* is not an array is skipped.
RECURSIVE PushedNodes(_)
PushedNodes(entries) ==
    IF entries = <<>> THEN <<>>
    ELSE (IF entries[1].runs.t = "arr"
          THEN NodeResultsOfRuns(entries[1].name, entries[1].runs.items)
          ELSE <<>>)
         \o PushedNodes(Tail(entries))

RECURSIVE SumField(_, _)
SumField(nodes, f) ==
    IF nodes = <<>> THEN 0 ELSE nodes[1][f] + SumField(Tail(nodes), f)

\* `${node.nodeName}-${node.model}`
NodeKey(node) == node.nodeName \o <<"-">> \o node.model

\* Variant: a node whose key is there replaces the value.
RECURSIVE NodeMapOverwrite(_, _)
NodeMapOverwrite(nodes, nodeMap) ==
    IF nodes = <<>> THEN nodeMap
    ELSE LET node == Head(nodes)
             key == NodeKey(node)
         IN  IF \E i \in 1..Len(nodeMap) : nodeMap[i][1] = key
             THEN LET i == CHOOSE i \in 1..Len(nodeMap) : nodeMap[i][1] = key
                  IN  NodeMapOverwrite(Tail(nodes), [nodeMap EXCEPT ![i] = <<key, node>>])
             ELSE NodeMapOverwrite(Tail(nodes), Append(nodeMap, <<key, node>>))

\* The Map the deduplication builds, as <<key, value>> pairs in insertion
\* order: a node whose key is there is added to the value, else appended.
RECURSIVE NodeMap(_, _)
NodeMap(nodes, nodeMap) ==
    IF nodes = <<>> THEN nodeMap
    ELSE LET node == Head(nodes)
             key == NodeKey(node)
         IN  IF \E i \in 1..Len(nodeMap) : nodeMap[i][1] = key
             THEN LET i == CHOOSE i \in 1..Len(nodeMap) : nodeMap[i][1] = key
                      existing == nodeMap[i][2]
                  IN  NodeMap(Tail(nodes),
                        [nodeMap EXCEPT ![i] =
                           <<key, [existing EXCEPT
                                     !.promptTokens = @ + node.promptTokens,
                                     !.completionTokens = @ + node.completionTokens,
                                     !.totalTokens = @ + node.totalTokens]>>])
             ELSE NodeMap(Tail(nodes), Append(nodeMap, <<key, node>>))

\* !data?.resultData?.runData is false
HasRunData(exec) ==
    /\ exec.data.t = "obj"
    /\ exec.data.resultData.t = "obj"
    /\ exec.data.resultData.runData.t = "obj"

\* run.source throws a TypeError when a run is null.
ExtractThrows(exec) ==
    /\ HasRunData(exec)
    /\ \E p \in 1..Len(exec.data.resultData.runData.entries) :
         LET nodeRuns == exec.data.resultData.runData.entries[p].runs
         IN  /\ nodeRuns.t = "arr"
             /\ \E k \in 1..Len(nodeRuns.items) : PropertyAccessThrows(nodeRuns.items[k])

\* The value extractTokenUsage returns, when it returns.
ExtractTokenUsage(exec) ==
    LET pushed == IF HasRunData(exec)
                  THEN PushedNodes(exec.data.resultData.runData.entries)
                  ELSE <<>>
        nodeMap == NodeMap(pushed, <<>>)
    IN  [ executionId |-> exec.id,
          workflowId  |-> exec.workflowId,
          status      |-> exec.status,
          startedAt   |-> exec.startedAt,
          stoppedAt   |-> exec.stoppedAt,
          nodes       |-> [i \in 1..Len(nodeMap) |-> nodeMap[i][2]],
          totals      |-> [ promptTokens     |-> SumField(pushed, "promptTokens"),
                            completionTokens |-> SumField(pushed, "completionTokens"),
                            totalTokens      |-> SumField(pushed, "totalTokens") ] ]

MaxTokenRuns == 2

\* Two node names and two model names whose keys coincide: "a-b" with "c",
\* and "a" with "b-c".
TokenNodeNames == << <<"a", "-", "b">>, <<"a">> >>

TokenUsageObject(p, c, total) ==
    JObj(<< <<"promptTokens", JNum(p)>>, <<"completionTokens", JNum(c)>>,
            <<"totalTokens", JNum(total)>> >>)

\* The entries of a run array: null, a number, an object without fields, a
\* run with tokenUsage and one of the two models, a run whose output item
\* holds llmOutput, and a run with OpenAI style usage and no model.
TokenRunValues ==
    { JNull,
      JNum(5),
      JObj(<<>>),
      JObj(<< <<"tokenUsage", TokenUsageObject(10, 5, 15)>>, <<"model", JStr(<<"c">>)>> >>),
      JObj(<< <<"tokenUsage", TokenUsageObject(10, 5, 15)>>,
              <<"model", JStr(<<"b", "-", "c">>)>> >>),
      JObj(<< <<"data", JObj(<< <<"main", JArr(<< JObj(<<
                 <<"llmOutput", JObj(<< <<"tokenUsage", TokenUsageObject(2, 1, 3)>>,
                                        <<"model_name", JStr(<<"c">>)>> >>)>> >>) >>)>> >>)>> >>),
      JObj(<< <<"usage", JObj(<< <<"prompt_tokens", JNum(3)>>,
                                 <<"completion_tokens", JNum(4)>>,
                                 <<"total_tokens", JNum(7)>> >>)>> >>) }

\* The values of runData: arrays of runs, and a value that is not an array.
NodeRunsValues ==
    { JArr(items) : items \in UNION { [1..n -> TokenRunValues] : n \in 0..MaxTokenRuns } }
    \cup { JObj(<<>>) }

TokenRunDatas ==
    { [p \in 1..Len(TokenNodeNames) |-> [name |-> TokenNodeNames[p], runs |-> rs[p]]] :
        rs \in [1..Len(TokenNodeNames) -> NodeRunsValues] }

\* execution.data: absent, without resultData, without runData, or complete.
TokenDatas ==
    { JUndefined,
      [t |-> "obj", resultData |-> JUndefined],
      [t |-> "obj", resultData |-> [t |-> "obj", runData |-> JUndefined]] }
    \cup { [t |-> "obj", resultData |-> [t |-> "obj", runData |-> [t |-> "obj", entries |-> rd]]] :
             rd \in TokenRunDatas }

InitTokens ==
    /\ pc = "start"
    /\ \E data \in TokenDatas :
         execution = [id |-> "ex-1", workflowId |-> "wf-1", status |-> "success",
                      startedAt |-> 10, stoppedAt |-> 30, data |-> data]
    /\ trace = NoTrace
    /\ details = NoTrace
    /\ output = <<>>
    /\ parsed = NoOptions
    /\ AiUnused
    /\ FetchUnused
    /\ TokenUnused
    /\ TagsUnused
    /\ ThrottleUnused
    /\ wf1 = NoWorkflow
    /\ wf2 = NoWorkflow
    /\ added = <<>>
    /\ removed = <<>>
    /\ modified = <<>>
    /\ unchanged = <<>>
    /\ tempFiles = <<>>
    /\ remote = NoWorkflow
    /\ fetched = <<>>
    /\ requests = <<>>

\* A call of extractTokenUsage(execution): it returns, or a TypeError leaves it.
ExtractTokenUsageCall ==
    /\ pc = "start"
    /\ IF ExtractThrows(execution)
       THEN pc' = "error" /\ usage' = usage
       ELSE pc' = "done" /\ usage' = ExtractTokenUsage(execution)
    /\ UNCHANGED <<diffVars, updateVars, traceVars, aiVars, fetchVars, throttleVars,
                   tagVars>>

NextTokens == ExtractTokenUsageCall

SpecTokens == InitTokens /\ [][NextTokens]_vars

(***************************************************************************)
(* Properties of the token extractor                                       *)
(***************************************************************************)
\* The run data of the execution, <<>> when it has none.
TokenEntries ==
    IF HasRunData(execution) THEN execution.data.resultData.runData.entries ELSE <<>>

\* C18: the returned nodes hold one entry for each (nodeName, model) pair of
\* the usage records found, with the sum of the tokens of the records of that
\* pair: records are merged only when both nodeName and model are equal, and
\* no pair has two entries.
C18_CompositeKey ==
    pc = "done" =>
        LET pushed == PushedNodes(TokenEntries)
        IN  /\ \A i, j \in 1..Len(usage.nodes) :
                 (/\ usage.nodes[i].nodeName = usage.nodes[j].nodeName
                  /\ usage.nodes[i].model = usage.nodes[j].model) => i = j
            /\ \A k \in 1..Len(pushed) :
                 \E i \in 1..Len(usage.nodes) :
                    /\ usage.nodes[i].nodeName = pushed[k].nodeName
                    /\ usage.nodes[i].model = pushed[k].model
                    /\ usage.nodes[i].totalTokens =
                         SumField(SelectSeq(pushed, LAMBDA r :
                                     r.nodeName = pushed[k].nodeName /\ r.model = pushed[k].model),
                                  "totalTokens")

\* C20: extractTokenUsage raises no error, whatever the shape of its input;
\* without data, resultData or runData its nodes are empty and its totals 0,
\* and a value of runData that is no array, or a run that is null, no object
\* or without fields, adds nothing.
C20_NeverRaises ==
    /\ pc # "error"
    /\ pc = "done" =>
         /\ ~HasRunData(execution) =>
              /\ usage.nodes = <<>>
              /\ \A f \in TokenFields : usage.totals[f] = 0
         /\ \A p \in 1..Len(TokenEntries) :
              LET nodeRuns == TokenEntries[p].runs
              IN  (\/ nodeRuns.t # "arr"
                   \/ \A k \in 1..Len(nodeRuns.items) :
                        nodeRuns.items[k] \in {JNull, JNum(5), JObj(<<>>)})
                  => \A i \in 1..Len(usage.nodes) :
                        usage.nodes[i].nodeName # TokenEntries[p].name

(***************************************************************************)
(* lexcli: the request throttle (src/lexcli/scripts/cli.js)                *)
(*                                                                         *)
(* Every call site awaits apiRequest, so a request enters throttle() only  *)
(* after the answer to the one before.  Time is counted in milliseconds    *)
(* and passes between the steps of the event loop, not inside one; a timer *)
(* fires at its due time or later, never earlier.                          *)
(***************************************************************************)
MIN_REQUEST_INTERVAL == 550

OneSecond == 1000

\* Date.now() when the process starts.
StartTime == 1000
\* The end of the time modelled, and the steps the clock advances by.
MaxTime == 3000
ClockSteps == {50, 300}
\* The most requests one process sends.
MaxRequests == 3

InitThrottle ==
    /\ pc = "idle"
    /\ now = StartTime
    /\ lastRequestTime = 0
    /\ wakeAt = 0
    /\ requestTimes = <<>>
    /\ wf1 = NoWorkflow
    /\ wf2 = NoWorkflow
    /\ added = <<>>
    /\ removed = <<>>
    /\ modified = <<>>
    /\ unchanged = <<>>
    /\ tempFiles = <<>>
    /\ remote = NoWorkflow
    /\ fetched = <<>>
    /\ requests = <<>>
    /\ execution = NoTrace
    /\ trace = NoTrace
    /\ details = NoTrace
    /\ output = <<>>
    /\ parsed = NoOptions
    /\ AiUnused
    /\ FetchUnused
    /\ TokenUnused
    /\ TagsUnused

\* Time passes.
Tick(d) ==
    /\ now + d <= MaxTime
    /\ now' = now + d
    /\ UNCHANGED <<pc, lastRequestTime, wakeAt, requestTimes,
                   diffVars, updateVars, traceVars, aiVars, fetchVars, tokenVars, tagVars>>

\* apiRequest calls throttle(): the request starts at once when the last one
\* is MIN_REQUEST_INTERVAL or more ago, else a timer is set for the rest.
ApiRequest ==
    /\ pc = "idle"
    /\ Len(requestTimes) < MaxRequests
    /\ LET elapsed == now - lastRequestTime
       IN  IF elapsed < MIN_REQUEST_INTERVAL
           THEN /\ wakeAt' = now + (MIN_REQUEST_INTERVAL - elapsed)
                /\ pc' = "waiting"
                /\ UNCHANGED <<lastRequestTime, requestTimes>>
           ELSE /\ lastRequestTime' = now
                /\ requestTimes' = Append(requestTimes, now)
                /\ pc' = "fetching"
                /\ UNCHANGED wakeAt
    /\ UNCHANGED <<now, diffVars, updateVars, traceVars, aiVars, fetchVars, tokenVars, tagVars>>

\* Variant: after the wait the request starts without lastRequestTime being set.
TimerFiresStale ==
    /\ pc = "waiting"
    /\ now >= wakeAt
    /\ requestTimes' = Append(requestTimes, now)
    /\ pc' = "fetching"
    /\ UNCHANGED <<lastRequestTime, now, wakeAt, diffVars, updateVars, traceVars, aiVars,
                   fetchVars, tokenVars, tagVars>>

\* The timer of throttle() fires: lastRequestTime is set and the request starts.
TimerFires ==
    /\ pc = "waiting"
    /\ now >= wakeAt
    /\ lastRequestTime' = now
    /\ requestTimes' = Append(requestTimes, now)
    /\ pc' = "fetching"
    /\ UNCHANGED <<now, wakeAt, diffVars, updateVars, traceVars, aiVars, fetchVars,
                   tokenVars, tagVars>>

\* The answer arrives: the command goes on, or the error ends it.
Response(ok) ==
    /\ pc = "fetching"
    /\ pc' = IF ok THEN "idle" ELSE "error"
    /\ UNCHANGED <<throttleVars, diffVars, updateVars, traceVars, aiVars, fetchVars,
                   tokenVars, tagVars>>

NextThrottle ==
    \/ \E d \in ClockSteps : Tick(d)
    \/ ApiRequest
    \/ TimerFires
    \/ \E ok \in BOOLEAN : Response(ok)

SpecThrottle == InitThrottle /\ [][NextThrottle]_vars

\* C19: two requests in a row start MIN_REQUEST_INTERVAL or more apart, so
\* that three requests in a row span more than a second: no window of one
\* second holds the start of more than two.
C19_RequestSpacing ==
    /\ \A i \in 1..(Len(requestTimes) - 1) :
         requestTimes[i + 1] - requestTimes[i] >= MIN_REQUEST_INTERVAL
    /\ \A i \in 1..(Len(requestTimes) - 2) :
         requestTimes[i + 2] - requestTimes[i] > OneSecond

\* Two requests exactly the interval apart, and a third one waiting for the
\* timer that the throttle set.
C19_Witness ==
    /\ pc = "waiting"
    /\ Len(requestTimes) = 2
    /\ requestTimes[2] - requestTimes[1] = MIN_REQUEST_INTERVAL
    /\ now > lastRequestTime
    /\ wakeAt = lastRequestTime + MIN_REQUEST_INTERVAL

\* Three requests, each started by the timer right when it was due.
C19_WitnessTight ==
    /\ Len(requestTimes) = 3
    /\ requestTimes[3] - requestTimes[1] = 2 * MIN_REQUEST_INTERVAL

(***************************************************************************)
(* lexcli: apiRequest calls that are not awaited one by one                *)
(* (specification SpecThrottleCalls)                                       *)
(*                                                                         *)
(* Several calls of apiRequest are in flight at once, as under             *)
(* Promise.all: pc and wakeAt hold one value per call.  Each call runs     *)
(* throttle() up to its await in one step of the event loop, and the rest  *)
(* of it when its timer has fired.                                         *)
(***************************************************************************)
MaxCalls == 3
Calls == 1..MaxCalls
\* The end of the time modelled with calls in flight at once.
MaxCallTime == 1700

InitThrottleCalls ==
    /\ pc = [c \in Calls |-> "idle"]
    /\ now = StartTime
    /\ lastRequestTime = 0
    /\ wakeAt = [c \in Calls |-> 0]
    /\ requestTimes = <<>>
    /\ wf1 = NoWorkflow
    /\ wf2 = NoWorkflow
    /\ added = <<>>
    /\ removed = <<>>
    /\ modified = <<>>
    /\ unchanged = <<>>
    /\ tempFiles = <<>>
    /\ remote = NoWorkflow
    /\ fetched = <<>>
    /\ requests = <<>>
    /\ execution = NoTrace
    /\ trace = NoTrace
    /\ details = NoTrace
    /\ output = <<>>
    /\ parsed = NoOptions
    /\ AiUnused
    /\ FetchUnused
    /\ TokenUnused
    /\ TagsUnused

\* Time passes while calls are in flight.
TickCalls(d) ==
    /\ now + d <= MaxCallTime
    /\ Tick(d)

\* A call of apiRequest enters throttle(): `now` and `elapsed` are taken
\* from lastRequestTime as it is at this moment; the request starts at once,
\* or the call waits for a timer set for the rest of the interval.
ApiRequestCall(c) ==
    /\ pc[c] = "idle"
    /\ LET elapsed == now - lastRequestTime
       IN  IF elapsed < MIN_REQUEST_INTERVAL
           THEN /\ wakeAt' = [wakeAt EXCEPT ![c] = now + (MIN_REQUEST_INTERVAL - elapsed)]
                /\ pc' = [pc EXCEPT ![c] = "waiting"]
                /\ UNCHANGED <<lastRequestTime, requestTimes>>
           ELSE /\ lastRequestTime' = now
                /\ requestTimes' = Append(requestTimes, now)
                /\ pc' = [pc EXCEPT ![c] = "fetching"]
                /\ UNCHANGED wakeAt
    /\ UNCHANGED <<now, diffVars, updateVars, traceVars, aiVars, fetchVars, tokenVars,
                   tagVars>>

\* The timer of a waiting call fires: the call sets lastRequestTime and
\* starts its request.
ThrottleTimer(c) ==
    /\ pc[c] = "waiting"
    /\ now >= wakeAt[c]
    /\ lastRequestTime' = now
    /\ requestTimes' = Append(requestTimes, now)
    /\ pc' = [pc EXCEPT ![c] = "fetching"]
    /\ UNCHANGED <<now, wakeAt, diffVars, updateVars, traceVars, aiVars, fetchVars,
                   tokenVars, tagVars>>

\* The answer to the request of a call arrives.
FetchResponse(c, ok) ==
    /\ pc[c] = "fetching"
    /\ pc' = [pc EXCEPT ![c] = IF ok THEN "done" ELSE "error"]
    /\ UNCHANGED <<throttleVars, diffVars, updateVars, traceVars, aiVars, fetchVars,
                   tokenVars, tagVars>>

NextThrottleCalls ==
    \/ \E d \in ClockSteps : TickCalls(d)
    \/ \E c \in Calls : ApiRequestCall(c)
    \/ \E c \in Calls : ThrottleTimer(c)
    \/ \E c \in Calls, ok \in BOOLEAN : FetchResponse(c, ok)

SpecThrottleCalls == InitThrottleCalls /\ [][NextThrottleCalls]_vars

(***************************************************************************)
(* `workflow add-tag` and `workflow remove-tag` (specification SpecTags)   *)
(*                                                                         *)
(* The server stores the tags (allTags) and the workflow with its tags     *)
(* (remote.tags); `requests` holds the bodies of the PUT                   *)
(* /workflows/{id}/tags calls.  Tag names are sequences of characters.     *)
(* The CLI may be run again after a run has ended.                         *)
(***************************************************************************)
MaxTagOutput == 4

\* The tag names given on the command line; <<>> stands for a missing one.
TagNames == { <<"A">>, <<"a">>, <<"t">> }
TagNameArgs == TagNames \cup { <<>> }
\* The workflow ids given on the command line; "wf-404" does not exist.
TagWorkflowIds == {"wf-1", "wf-404"}

Tag(id, name) == [id |-> id, name |-> name]
\* The ids the server gives to the tags it creates.
TagIds == <<"t1", "t2", "t3", "t4">>

\* Tag lists of the server before the first run.
TagLists == { <<>>,
              << Tag("t1", <<"A">>) >>,
              << Tag("t1", <<"t">>), Tag("t2", <<"a">>) >>,
              << Tag("t1", <<"A">>), Tag("t2", <<"a">>) >> }

\* The tags of a workflow: some of the server's tags, in either order.
TagsAt(tags, idx) == [i \in 1..Len(idx) |-> tags[idx[i]]]
TagSelections(tags) ==
    { TagsAt(tags, idx) : idx \in { <<>> } \cup { <<i>> : i \in 1..Len(tags) }
                                   \cup { <<i, j>> : i, j \in 1..Len(tags) } }
WorkflowTagLists(tags) ==
    { sel \in TagSelections(tags) :
        \A i, j \in 1..Len(sel) : i # j => sel[i].id # sel[j].id }

\* A stored workflow with the given tags, or without a `tags` field.
TaggedDoc(tags, hasTags) ==
    [ f \in {"id", "name"} \cup (IF hasTags THEN {"tags"} ELSE {}) |->
        CASE f = "id" -> "wf-1" [] f = "name" -> "First" [] f = "tags" -> tags ]

\* allTags.find(t => t.name.toLowerCase() === tagName.toLowerCase()):
\* <<the first match>>, or <<>> for undefined.
FindTag(tags, tagName) ==
    LET matches == { i \in 1..Len(tags) :
                       ToLowerCase(tags[i].name) = ToLowerCase(tagName) }
    IN  IF matches = {} THEN <<>>
        ELSE << tags[CHOOSE i \in matches : \A j \in matches : i <= j] >>

\* POST /tags: the server stores the new tag under a fresh id.
CreateTag(tags, name) == Tag(TagIds[Len(tags) + 1], name)

\* (workflow.tags || []).map(t => t.id)
ExistingTagIds(workflow) ==
    IF "tags" \in DOMAIN workflow
    THEN [i \in 1..Len(workflow.tags) |-> workflow.tags[i].id]
    ELSE <<>>

\* Array.prototype.includes
ArrayIncludes(arr, x) == \E i \in 1..Len(arr) : arr[i] = x

\* [...existingTagIds, tag.id]
WithTagIdAlone(ids, id) == << id >>
WithTagId(ids, id) == Append(ids, id)

\* existingTagIds.filter(id => id !== tag.id)
WithoutTagIdFirst(ids, id) == Tail(ids)
WithoutTagId(ids, id) == SelectSeq(ids, LAMBDA x : x # id)

\* The body of PUT /workflows/{id}/tags: tagIds.map(id => ({ id })).
SetWorkflowTagsBody(tagIds) == [i \in 1..Len(tagIds) |-> [id |-> tagIds[i]]]

\* PUT /workflows/{id}/tags replaces all tags of the workflow by the tags of
\* the body.
StoreWorkflowTags(workflow, body, tags) ==
    [ f \in DOMAIN workflow \cup {"tags"} |->
        IF f = "tags"
        THEN [i \in 1..Len(body) |->
                 CHOOSE t \in Range(tags) : t.id = body[i].id]
        ELSE workflow[f] ]


InitTags ==
    /\ pc = "start"
    /\ wf1 = NoWorkflow /\ wf2 = NoWorkflow
    /\ added = <<>> /\ removed = <<>> /\ modified = <<>> /\ unchanged = <<>>
    /\ tempFiles = <<>>
    /\ allTags \in TagLists
    /\ \E tags \in WorkflowTagLists(allTags), hasTags \in BOOLEAN :
         /\ (~hasTags => tags = <<>>)
         /\ remote = TaggedDoc(tags, hasTags)
    /\ fetched = <<>>
    /\ requests = <<>>
    /\ execution = NoTrace /\ trace = <<>> /\ details = <<>>
    /\ output = <<>>
    /\ parsed = NoOptions
    /\ AiUnused
    /\ FetchUnused
    /\ TokenUnused
    /\ ThrottleUnused

\* `workflow add-tag <id> <tag-name>`
AddTagCmd(workflowId, tagName) ==
    /\ pc = "start"
    /\ parsed' = CommandLine(<<"add-tag", workflowId, tagName>>, <<>>)
    /\ IF tagName = <<>>
       THEN /\ pc' = "error"
            /\ output' = Append(output, "Usage")
            /\ UNCHANGED <<allTags, remote, fetched, requests>>
       ELSE LET found == FindTag(allTags, tagName)
                tag == IF found = <<>> THEN CreateTag(allTags, tagName)
                       ELSE found[1]
                created == IF found = <<>> THEN << "Created tag" >> ELSE <<>>
                existingTagIds == ExistingTagIds(remote)
            IN  /\ allTags' = IF found = <<>> THEN Append(allTags, tag)
                              ELSE allTags
                /\ IF workflowId # remote.id
                   THEN /\ pc' = "error"
                        /\ output' = output \o created \o << "Error" >>
                        /\ UNCHANGED <<remote, fetched, requests>>
                   ELSE /\ pc' = "done"
                        /\ fetched' = << remote >>
                        /\ IF ArrayIncludes(existingTagIds, tag.id)
                           THEN /\ output' = output \o created
                                               \o << "already has tag" >>
                                /\ UNCHANGED <<remote, requests>>
                           ELSE LET body == SetWorkflowTagsBody(
                                              WithTagId(existingTagIds, tag.id))
                                IN  /\ requests' = Append(requests, body)
                                    /\ remote' = StoreWorkflowTags(remote, body,
                                                                   allTags')
                                    /\ output' = output \o created
                                                   \o << "Added tag" >>
    /\ UNCHANGED <<diffVars, execution, trace, details, aiVars, fetchVars,
                   tokenVars, throttleVars>>

\* `workflow remove-tag <id> <tag-name>`
RemoveTagCmd(workflowId, tagName) ==
    /\ pc = "start"
    /\ parsed' = CommandLine(<<"remove-tag", workflowId, tagName>>, <<>>)
    /\ LET found == FindTag(allTags, tagName)
           existingTagIds == ExistingTagIds(remote)
       IN  IF tagName = <<>>
           THEN /\ pc' = "error"
                /\ output' = Append(output, "Usage")
                /\ UNCHANGED <<remote, fetched, requests>>
           ELSE IF found = <<>>
           THEN /\ pc' = "error"
                /\ output' = Append(output, "Tag not found")
                /\ UNCHANGED <<remote, fetched, requests>>
           ELSE IF workflowId # remote.id
           THEN /\ pc' = "error"
                /\ output' = Append(output, "Error")
                /\ UNCHANGED <<remote, fetched, requests>>
           ELSE /\ pc' = "done"
                /\ fetched' = << remote >>
                /\ IF ~ArrayIncludes(existingTagIds, found[1].id)
                   THEN /\ output' = Append(output, "doesn't have tag")
                        /\ UNCHANGED <<remote, requests>>
                   ELSE LET body == SetWorkflowTagsBody(
                                      WithoutTagId(existingTagIds, found[1].id))
                        IN  /\ requests' = Append(requests, body)
                            /\ remote' = StoreWorkflowTags(remote, body, allTags)
                            /\ output' = Append(output, "Removed tag")
    /\ UNCHANGED <<allTags, diffVars, execution, trace, details, aiVars,
                   fetchVars, tokenVars, throttleVars>>

\* The CLI is run again after a run has ended.
RunAgain ==
    /\ pc \in {"done", "error"}
    /\ Len(output) < MaxTagOutput
    /\ pc' = "start"
    /\ UNCHANGED <<diffVars, updateVars, traceVars, otherVars>>

NextTags ==
    \/ \E workflowId \in TagWorkflowIds, tagName \in TagNameArgs :
         AddTagCmd(workflowId, tagName)
    \/ \E workflowId \in TagWorkflowIds, tagName \in TagNameArgs :
         RemoveTagCmd(workflowId, tagName)
    \/ RunAgain

SpecTags == InitTags /\ [][NextTags]_vars

(***************************************************************************)
(* Properties of set-code, set-setting and the credential merge            *)
(***************************************************************************)
\* The `workflow` subcommand that ran, "" before any has.
SubCommand == IF "command" \in DOMAIN parsed THEN parsed.commandArgs[1] ELSE ""

NodeFields == {"id", "name", "type", "typeVersion", "position", "parameters",
               "credentials", "webhookId"}

\* C21: the body set-code sends has the name, connections and settings of the
\* fetched workflow and its nodes in their order, each with its eight fields
\* as fetched, but for the parameters of the named node, which are the
\* fetched ones with jsCode holding the content of the file.
C21_SetCodeFrame ==
    (SubCommand = "set-code" /\ requests # <<>>) =>
        LET body == requests[1]
            workflow == fetched[1]
            nodeName == parsed.commandArgs[3]
        IN  /\ Len(requests) = 1
            /\ DOMAIN body = AcceptedFields \cap DOMAIN workflow
            /\ \A f \in DOMAIN body \ {"nodes"} : body[f] = workflow[f]
            /\ Len(body.nodes) = Len(workflow.nodes)
            /\ \A i \in 1..Len(body.nodes) :
                 /\ DOMAIN body.nodes[i] = NodeFields
                 /\ \A f \in NodeFields \ {"parameters"} :
                      body.nodes[i][f] = workflow.nodes[i][f]
                 /\ IF workflow.nodes[i].name = nodeName
                    THEN LET sent == body.nodes[i].parameters
                             was == workflow.nodes[i].parameters
                         IN  /\ Len(sent) = Len(was)
                             /\ \A k \in 1..Len(sent) :
                                  IF was[k][1] = "jsCode"
                                  THEN sent[k] = <<"jsCode", parsed.file[1]>>
                                  ELSE sent[k] = was[k]
                    ELSE body.nodes[i].parameters = workflow.nodes[i].parameters

\* set-code updated a workflow with settings and a second node, which
\* carries credentials.
C21_Witness ==
    /\ SubCommand = "set-code"
    /\ pc = "done"
    /\ Len(requests) = 1
    /\ "settings" \in DOMAIN fetched[1]
    /\ Len(fetched[1].nodes) = 2
    /\ \E i \in 1..2 :
         /\ fetched[1].nodes[i].name # parsed.commandArgs[3]
         /\ fetched[1].nodes[i].credentials = "credA"
         /\ requests[1].nodes[i].credentials = "credA"
    /\ \E i \in 1..2 :
         /\ fetched[1].nodes[i].name = parsed.commandArgs[3]
         /\ requests[1].nodes[i].parameters # fetched[1].nodes[i].parameters

(***************************************************************************)
(* Properties of the token extractor: counting and conservation            *)
(***************************************************************************)
\* The token-usage records of a data tree, each once: the tokenUsage object
\* and the OpenAI style usage object of every object of the tree.
RECURSIVE UsageRecords(_)
RECURSIVE UsageRecordsIn(_)
UsageRecordsIn(values) ==
    IF values = <<>> THEN <<>>
    ELSE UsageRecords(Head(values)) \o UsageRecordsIn(Tail(values))

UsageRecords(v) ==
    IF v.t = "arr" THEN UsageRecordsIn(v.items)
    ELSE IF v.t = "obj"
    THEN (IF Truthy(Prop(v, "tokenUsage")) THEN <<Prop(v, "tokenUsage")>> ELSE <<>>)
         \o (IF OpenAiUsage(v) # <<>> THEN <<OpenAiUsage(v)[1].tokenUsage>> ELSE <<>>)
         \o UsageRecordsIn([i \in 1..Len(v.props) |-> v.props[i][2]])
    ELSE <<>>

\* The token-usage records of all runs of the execution.
RECURSIVE UsageRecordsOf(_)
UsageRecordsOf(entries) ==
    IF entries = <<>> THEN <<>>
    ELSE (IF entries[1].runs.t = "arr" THEN UsageRecordsIn(entries[1].runs.items) ELSE <<>>)
         \o UsageRecordsOf(Tail(entries))

RECURSIVE SumTotalTokens(_)
SumTotalTokens(records) ==
    IF records = <<>> THEN 0
    ELSE TokenCount(records[1], "totalTokens", "total_tokens") + SumTotalTokens(Tail(records))

\* C22: every token-usage record of the run data is counted once:
\* findTokenUsage gives one result for each, and totals.totalTokens is the sum
\* of their totalTokens.
C22_CountedOnce ==
    pc = "done" =>
        /\ \A p \in 1..Len(TokenEntries) :
             TokenEntries[p].runs.t = "arr" =>
                \A k \in 1..Len(TokenEntries[p].runs.items) :
                    Len(FindTokenUsage(TokenEntries[p].runs.items[k]))
                        = Len(UsageRecords(TokenEntries[p].runs.items[k]))
        /\ usage.totals.totalTokens = SumTotalTokens(UsageRecordsOf(TokenEntries))

\* The place in the pushed records of the first one with the nodeName and
\* model of node, 0 when there is none.
FirstPlace(pushed, node) ==
    IF \E k \in 1..Len(pushed) :
          pushed[k].nodeName = node.nodeName /\ pushed[k].model = node.model
    THEN CHOOSE k \in 1..Len(pushed) :
            /\ pushed[k].nodeName = node.nodeName /\ pushed[k].model = node.model
            /\ \A j \in 1..(k - 1) :
                 ~(pushed[j].nodeName = node.nodeName /\ pushed[j].model = node.model)
    ELSE 0

\* C23: each total is the sum of its field over the returned nodes, and the
\* returned nodes stand in the order in which their nodeName and model first
\* occur among the records found.
C23_TokensConserved ==
    pc = "done" =>
        /\ \A f \in TokenFields : usage.totals[f] = SumField(usage.nodes, f)
        /\ LET pushed == PushedNodes(TokenEntries)
           IN  /\ \A i \in 1..Len(usage.nodes) : FirstPlace(pushed, usage.nodes[i]) > 0
               /\ \A i, j \in 1..Len(usage.nodes) :
                    i < j => FirstPlace(pushed, usage.nodes[i])
                                < FirstPlace(pushed, usage.nodes[j])

\* Four records, of which the second and the fourth were added to the first
\* and the third: two nodes are returned.
C23_Witness ==
    /\ pc = "done"
    /\ Len(PushedNodes(TokenEntries)) = 4
    /\ Len(usage.nodes) = 2
    /\ usage.nodes[1].nodeName # usage.nodes[2].nodeName
    /\ usage.nodes[1].totalTokens = 30
    /\ usage.nodes[2].totalTokens = 14
    /\ usage.totals.totalTokens = 44

\* The node of the fetched workflow that carries the name given to set-code.
NamedNodes ==
    IF fetched = <<>> THEN {}
    ELSE {n \in Range(fetched[1].nodes) : n.name = parsed.commandArgs[3]}

\* C24: set-code sends its update only when the file exists and the fetched
\* workflow has a node of exactly the given name whose type contains "code";
\* otherwise it ends with the error exit and without an update call, and the
\* stored workflow stays as it was.
C24_SetCodeGuards ==
    /\ [](SubCommand = "set-code" =>
            LET allowed == /\ parsed.file # <<>>
                           /\ \E n \in NamedNodes : n.type = "n8n-nodes-base.code"
            IN  /\ requests # <<>> => allowed
                /\ ~allowed => (pc = "error" /\ requests = <<>>)
                /\ parsed.file = <<>> => fetched = <<>>)
    /\ [][(SubCommand' = "set-code" /\ pc' = "error")
            => (remote' = remote /\ requests' = requests)]_vars

\* set-code found the node, which is no code node, and gave up.
C24_Witness ==
    /\ SubCommand = "set-code"
    /\ pc = "error"
    /\ parsed.file # <<>>
    /\ NamedNodes # {}
    /\ requests = <<>>
    /\ remote = fetched[1]

\* set-code was given a name that differs in case from that of a code node.
C24_WitnessCase ==
    /\ SubCommand = "set-code"
    /\ pc = "error"
    /\ parsed.commandArgs[3] = "x"
    /\ fetched # <<>>
    /\ \E n \in Range(fetched[1].nodes) : n.name = "X" /\ n.type = "n8n-nodes-base.code"
    /\ requests = <<>>

\* The keys of an object kept as members, and the value under one of them.
KeysOf(obj) == {obj[i][1] : i \in 1..Len(obj)}
ValueOf(obj, key) == obj[CHOOSE i \in 1..Len(obj) : obj[i][1] = key][2]

\* C25: the body set-setting sends has the name, nodes and connections of the
\* fetched workflow, and the fetched settings (none when there are none) but
\* for the given key: absent when the value is "null" or "none", else holding
\* the value.
C25_SetSettingFrame ==
    (SubCommand = "set-setting" /\ requests # <<>>) =>
        LET body == requests[1]
            workflow == fetched[1]
            settingKey == parsed.commandArgs[3]
            settingValue == parsed.commandArgs[4]
            was == IF "settings" \in DOMAIN workflow THEN workflow.settings ELSE <<>>
        IN  /\ Len(requests) = 1
            /\ DOMAIN body = AcceptedFields
            /\ body.name = workflow.name
            /\ body.connections = workflow.connections
            /\ Len(body.nodes) = Len(workflow.nodes)
            /\ \A i \in 1..Len(body.nodes) :
                 /\ DOMAIN body.nodes[i] = NodeFields
                 /\ \A f \in NodeFields : body.nodes[i][f] = workflow.nodes[i][f]
            /\ Cardinality(KeysOf(body.settings)) = Len(body.settings)
            /\ KeysOf(body.settings) \ {settingKey} = KeysOf(was) \ {settingKey}
            /\ \A k \in KeysOf(was) \ {settingKey} :
                 ValueOf(body.settings, k) = ValueOf(was, k)
            /\ IF settingValue \in {"null", "none"}
               THEN settingKey \notin KeysOf(body.settings)
               ELSE /\ settingKey \in KeysOf(body.settings)
                    /\ ValueOf(body.settings, settingKey) = settingValue

\* A setting replaced while another one and a node with credentials stayed.
C25_Witness ==
    /\ SubCommand = "set-setting"
    /\ pc = "done"
    /\ parsed.commandArgs[3] = "errorWorkflow"
    /\ parsed.commandArgs[4] = "wf-7"
    /\ "settings" \in DOMAIN fetched[1]
    /\ KeysOf(fetched[1].settings) = {"executionOrder", "errorWorkflow"}
    /\ ValueOf(requests[1].settings, "executionOrder") = "v1"
    /\ ValueOf(requests[1].settings, "errorWorkflow") = "wf-7"
    /\ \E n \in Range(requests[1].nodes) : n.credentials = "credA"

\* A setting removed from a workflow with two settings.
C25_WitnessRemoved ==
    /\ SubCommand = "set-setting"
    /\ pc = "done"
    /\ parsed.commandArgs[4] = "none"
    /\ "settings" \in DOMAIN fetched[1]
    /\ Len(fetched[1].settings) = 2
    /\ Len(requests[1].settings) = 1

(***************************************************************************)
(* Properties of add-tag and remove-tag                                    *)
(***************************************************************************)
SameTagName(a, b) == ToLowerCase(a) = ToLowerCase(b)
\* The first tag of the list whose name is the given one, letter case aside.
FirstTagNamed(tags, tagName) ==
    tags[CHOOSE i \in 1..Len(tags) :
            /\ SameTagName(tags[i].name, tagName)
            /\ \A j \in 1..(i - 1) : ~SameTagName(tags[j].name, tagName)]
TagNamed(tags, tagName) ==
    \E i \in 1..Len(tags) : SameTagName(tags[i].name, tagName)
IdsOf(tags) == [i \in 1..Len(tags) |-> tags[i].id]
WorkflowTagIds(workflow) ==
    IF "tags" \in DOMAIN workflow THEN IdsOf(workflow.tags) ELSE <<>>

C26_WitnessCase ==
    /\ SubCommand = "add-tag"
    /\ pc = "done"
    /\ output = << "already has tag" >>
    /\ \E t \in Range(allTags) :
         /\ t.name # parsed.commandArgs[3]
         /\ SameTagName(t.name, parsed.commandArgs[3])
         /\ t.id \in Range(WorkflowTagIds(remote))

C27_WitnessOrder ==
    /\ SubCommand = "remove-tag"
    /\ Len(requests) = 1
    /\ Len(fetched[1].tags) = 2
    /\ requests[1] = << [id |-> fetched[1].tags[2].id] >>
    /\ output = << "Removed tag" >>

(***************************************************************************)
(* The credential merge of `workflow update`                               *)
(***************************************************************************)
\* C28: `workflow update` sends as many nodes as the file has, in the
\* file's order; a file node with credentials is sent with these; a file
\* node without credentials is sent without any when no node of its name in
\* the stored workflow has credentials; every other field of every node is
\* sent as the file has it.
C28_MergeFillsGaps ==
    (SubCommand = "update" /\ "nodes" \in DOMAIN parsed.file[1])
      => LET fileNodes == parsed.file[1].nodes
             sent == requests[1].nodes
             existing == fetched[1].nodes
         IN  /\ Len(sent) = Len(fileNodes)
             /\ \A i \in 1..Len(fileNodes) :
                  /\ DOMAIN sent[i] = DOMAIN fileNodes[i]
                  /\ \A f \in DOMAIN fileNodes[i] \ {"credentials"} :
                       sent[i][f] = fileNodes[i][f]
                  /\ fileNodes[i].credentials # Undefined
                       => sent[i].credentials = fileNodes[i].credentials
                  /\ ( /\ fileNodes[i].credentials = Undefined
                       /\ \A j \in 1..Len(existing) :
                            existing[j].name = fileNodes[i].name
                              => existing[j].credentials = Undefined )
                       => sent[i].credentials = Undefined

\* The file has a node with credentials of its own under a name that has
\* other credentials in the stored workflow, and a node without credentials
\* under a name that has none there: the first is sent with the file's
\* credentials, the second without.
C28_Witness ==
    /\ SubCommand = "update"
    /\ pc = "done"
    /\ "nodes" \in DOMAIN parsed.file[1]
    /\ Len(parsed.file[1].nodes) = 2
    /\ \E i, j \in 1..2 :
         /\ parsed.file[1].nodes[i].credentials = "credB"
         /\ \E k \in 1..Len(fetched[1].nodes) :
              /\ fetched[1].nodes[k].name = parsed.file[1].nodes[i].name
              /\ fetched[1].nodes[k].credentials = "credA"
         /\ requests[1].nodes[i].credentials = "credB"
         /\ parsed.file[1].nodes[j].credentials = Undefined
         /\ \A k \in 1..Len(fetched[1].nodes) :
              fetched[1].nodes[k].name = parsed.file[1].nodes[j].name
                => fetched[1].nodes[k].credentials = Undefined
         /\ requests[1].nodes[j].credentials = Undefined

====
